---- MODULE Spec2Model ----
(***************************************************************************)
(* NemoSDK: the artifact compiler (data model, precedence resolution, XML  *)
(* emission, one-step compile), the process runner and the probe follow    *)
(* mode, modelled from src/nemosdk.                                        *)
(*                                                                         *)
(* Python Optional values are sequences of length at most one: None is     *)
(* <<>> and a set value v is <<v>>.  Python lists are sequences; a neuron  *)
(* index i of the code is position i + 1 of a sequence.                    *)
(***************************************************************************)
EXTENDS Integers, Sequences, FiniteSets, TLC

VARIABLES
    \* ---- compiler: the (defaults, layers) pair and what is computed from it
    defaults,       \* BIUNetworkDefaults
    layers,         \* list[Layer]
    vectors,        \* per layer, the result of materialize_precedence
    doc,            \* the primary document built by compile_to_xml
    call,           \* the arguments of a compile or compile_and_write call
    fsDir,          \* whether out_dir exists
    fsFiles,        \* the files of out_dir, in the order they were written
    outcome,        \* what the call returned or raised
    \* ---- probe follow mode: one signal file, its writer and one watch_probe
    sigFile,        \* the characters of the signal file
    watchArgs,      \* follow and max_events of the watch_probe call
    fhPos,          \* the cursor of the generator's file handle
    yielded,        \* the values the generator has yielded, in order
    watchPc,        \* where the generator is: "read", "sleep" or "done"
    \* ---- process runner: one call of NemoSimRunner.run past its path checks
    runArgs,        \* stream_output, the callbacks, check, timeout
    mainPc,         \* where the calling thread is in run
    pending,        \* the exception travelling out of the with block, if any
    result,         \* what run returned or raised
    childState,     \* "none", "running", "exited" (not yet waited for), "reaped"
    returncode,     \* the child's exit status
    descendant,     \* a descendant of the child holds its stdout and stderr open
    emitted,        \* per stream, the lines the child has written
    pipe,           \* per stream, the lines in the pipe, not yet read
    logFh,          \* per stream, the log file handle: "unopened", "open", "closed"
    log,            \* per stream, the lines of the log file
    logWriters,     \* per stream, who has written to the log file
    reader,         \* per stream, the reader thread: its position and its line
    cbSeen,         \* per stream, the lines passed to the callback
    mirrored,       \* per stream, the lines mirrored to the parent's stream
    timedOut,       \* the timeout has expired
    wroteClosed     \* a reader thread has written to a closed log file

\* concurrent invocations of run writing to one logs directory
VARIABLES clock, inv, logFiles
\* a call that builds the run configuration
VARIABLES cfgCall, cfgPaths, cfgResult

\* a probe over the simulator's output directory and one read through it
VARIABLES outDir, layerProbe, probeCall, probeResult

\* the start of watch_probe: whether the signal file exists, the arguments of
\* the wait, the monotonic clock, the deadline and the exception raised
VARIABLES sigExists, waitArgs, monotonic, deadline, watchError

\* a CompiledModel, the config.json it points to, the directories that exist,
\* and one call on the model with its result
VARIABLES compiledModel, configJson, dirsOnDisk, modelCall, modelResult

\* repeated compiles into one out_dir: the entries of probes.json, a
\* CompiledModel constructed from the config path alone, and the number of
\* compile calls made
VARIABLES probesJson, freshModel, compiles

\* the start of NemoSimRunner.run: the runner and the env argument, the
\* kind of what lies at each location of the file system, where run is,
\* whether the logs directory and the log files were made, the child
\* process started, and what run raised
VARIABLES runner, tree, launchPc, logsMade, child, launchResult

\* file handles of one probe read: the read and its arguments, the signal
\* file (absent or its characters), where the read is, the cursor of its
\* handle, the values it has yielded or batched, and the handles it holds
VARIABLES hRead, hFile, hPc, hPos, hCount, handles

compilerVars == <<defaults, layers, vectors, doc, call, fsDir, fsFiles, outcome>>

watchVars == <<sigFile, watchArgs, fhPos, yielded, watchPc>>

runVars == <<runArgs, mainPc, pending, result, childState, returncode, descendant, emitted,
             pipe, logFh, log, logWriters, reader, cbSeen, mirrored, timedOut, wroteClosed>>

nameVars == <<clock, inv, logFiles>>

configVars == <<cfgCall, cfgPaths, cfgResult>>

probeVars == <<outDir, layerProbe, probeCall, probeResult>>

waitVars == <<sigExists, waitArgs, monotonic, deadline, watchError>>

modelVars == <<compiledModel, configJson, dirsOnDisk, modelCall, modelResult>>

diskVars == <<probesJson, freshModel, compiles>>

launchVars == <<runner, tree, launchPc, logsMade, child, launchResult>>

handleVars == <<hRead, hFile, hPc, hPos, hCount, handles>>

vars == <<compilerVars, watchVars, runVars, nameVars, configVars, probeVars, waitVars, modelVars, diskVars, launchVars, handleVars>>

None == <<>>

Some(v) == <<v>>

\* ------------------------------------------------------------------------
\* Bounds of the model
\* ------------------------------------------------------------------------
\* the neurons plus the override declarations of a network
MaxNetwork == 5

\* the characters of the signal file
MaxFile == 4

\* the layers of a network given to the one-step compile
MaxCompileLayers == 2

\* the lines the child writes to one stream
MaxLines == 2

MaxClock == 2

MaxCalls == 2

MaxPath == 2

MaxOutFiles == 2

MaxLayerSize == 2

MaxTime == 6

\* ------------------------------------------------------------------------
\* Data model (src/nemosdk/model.py)
\* ------------------------------------------------------------------------
OverrideFields == {"VTh", "RLeak", "refractory"}

BIUNetworkDefaults(VTh, RLeak, refractory, DSBitWidth, DSClockMHz, DSMode) ==
    [VTh |-> VTh, RLeak |-> RLeak, refractory |-> refractory,
     VDD |-> None, Cn |-> None, Cu |-> None, fclk |-> None,
     DSBitWidth |-> DSBitWidth, DSClockMHz |-> DSClockMHz, DSMode |-> DSMode]

Synapses(rows, cols, weights) == [rows |-> rows, cols |-> cols, weights |-> weights]

NeuronOverrideRange(start, end, VTh, RLeak, refractory) ==
    [start |-> start, end |-> end, VTh |-> VTh, RLeak |-> RLeak, refractory |-> refractory]

NeuronOverride(index, VTh, RLeak, refractory) ==
    [index |-> index, VTh |-> VTh, RLeak |-> RLeak, refractory |-> refractory]

Layer(size, synapses, ranges, neurons, probe) ==
    [size |-> size, synapses |-> synapses, ranges |-> ranges, neurons |-> neurons,
     probe |-> probe]

\* ------------------------------------------------------------------------
\* Precedence resolver (src/nemosdk/model.py, materialize_precedence)
\* ------------------------------------------------------------------------
\* for i in range(r.start, r.end + 1): vec[i] = r.<field>, when the field is set
ApplyRange(vec, r, f) ==
    IF r[f] # None
    THEN [i \in 1..Len(vec) |-> IF r.start <= i - 1 /\ i - 1 <= r.end THEN r[f] ELSE vec[i]]
    ELSE vec

\* vec[n.index] = n.<field>, when the field is set
ApplyNeuron(vec, n, f) ==
    IF n[f] # None
    THEN [i \in 1..Len(vec) |-> IF i - 1 = n.index THEN n[f] ELSE vec[i]]
    ELSE vec

\* for r in ranges: ...   (declaration order)
RECURSIVE ApplyRanges(_, _, _)
ApplyRanges(vec, ranges, f) ==
    IF ranges = <<>> THEN vec
    ELSE ApplyRanges(ApplyRange(vec, Head(ranges), f), Tail(ranges), f)

\* for n in neurons: ...  (declaration order)
RECURSIVE ApplyNeurons(_, _, _)
ApplyNeurons(vec, neurons, f) ==
    IF neurons = <<>> THEN vec
    ELSE ApplyNeurons(ApplyNeuron(vec, Head(neurons), f), Tail(neurons), f)

materialize_precedence_ranges_last(size, dflt, ranges, neurons) ==
    [f \in OverrideFields |->
        ApplyRanges(ApplyNeurons([i \in 1..size |-> dflt[f]], neurons, f), ranges, f)]

materialize_precedence(size, dflt, ranges, neurons) ==
    [f \in OverrideFields |->
        ApplyNeurons(ApplyRanges([i \in 1..size |-> dflt[f]], ranges, f), neurons, f)]

\* ------------------------------------------------------------------------
\* Validation (src/nemosdk/model.py, the validate methods).  Each returns the
\* message of the ValueError it raises, or OK.
\* ------------------------------------------------------------------------
OK == "OK"

DefaultsValidate(d) ==
    IF d.DSBitWidth # None /\ d.DSBitWidth[1] \notin {4, 8}
    THEN "DSBitWidth must be 4 or 8"
    ELSE IF d.DSClockMHz # None /\ d.DSClockMHz[1] <= 0
    THEN "DSClockMHz must be positive"
    ELSE IF d.DSMode # None /\ d.DSMode[1] \notin {"ThresholdMode", "FrequencyMode", ""}
    THEN "DSMode must be 'ThresholdMode' or 'FrequencyMode'"
    ELSE OK

SynapsesValidate(s) ==
    IF s.rows <= 0 \/ s.cols <= 0
    THEN "synapses rows and cols must be positive"
    ELSE IF Len(s.weights) # s.rows
    THEN "weights must contain exactly 'rows' rows"
    ELSE IF \E i \in 1..Len(s.weights) : Len(s.weights[i]) # s.cols
    THEN "weights row must have exactly 'cols' entries"
    ELSE OK

RangeValidate(r, layer_size) ==
    IF r.start < 0 \/ r.end < 0 \/ r.start > r.end
    THEN "NeuronRange indices must be valid and start <= end"
    ELSE IF r.end >= layer_size
    THEN "NeuronRange end out of bounds for layer size"
    ELSE OK

NeuronValidate(n, layer_size) ==
    IF n.index < 0 \/ n.index >= layer_size
    THEN "Neuron index out of bounds for layer size"
    ELSE OK

\* The first message of a list of validation results that is not OK.
RECURSIVE FirstFailure(_)
FirstFailure(msgs) ==
    IF msgs = <<>> THEN OK
    ELSE IF Head(msgs) # OK THEN Head(msgs)
    ELSE FirstFailure(Tail(msgs))

LayerValidate(lyr) ==
    IF lyr.size <= 0
    THEN "Layer size must be positive"
    ELSE IF SynapsesValidate(lyr.synapses) # OK
    THEN SynapsesValidate(lyr.synapses)
    ELSE IF lyr.synapses.rows # lyr.size
    THEN "synapses.rows must equal Layer size"
    ELSE FirstFailure(
            [k \in 1..Len(lyr.ranges) |-> RangeValidate(lyr.ranges[k], lyr.size)]
            \o [k \in 1..Len(lyr.neurons) |-> NeuronValidate(lyr.neurons[k], lyr.size)])

\* ------------------------------------------------------------------------
\* Primary document (src/nemosdk/compiler.py, compile_to_xml)
\* ------------------------------------------------------------------------
\* str(value): the text of a value.  Python's str of an int or a float is
\* injective and parses back to the same number; Num is that parse.
Str(v) == [text |-> v]

Num(t) == t.text

\* _append_text(parent, tag, value) under "if value"
OptElemIfTruthy(tag, o) == IF o = None \/ o = Some(0) THEN <<>> ELSE << <<tag, Str(o[1])>> >>

\* _append_text(parent, tag, value) under "if value is not None"
OptElem(tag, o) == IF o = None THEN <<>> ELSE << <<tag, Str(o[1])>> >>

Element(tag, attrs, children) == [tag |-> tag, attrs |-> attrs, children |-> children]

\* the elements under <BIUNetwork>, in emission order
DefaultsSection(d) ==
    OptElem("VTh", d.VTh) \o OptElem("RLeak", d.RLeak) \o OptElem("refractory", d.refractory)
    \o OptElem("VDD", d.VDD) \o OptElem("Cn", d.Cn) \o OptElem("Cu", d.Cu)
    \o OptElem("fclk", d.fclk) \o OptElem("DSClockMHz", d.DSClockMHz)
    \o OptElem("DSBitWidth", d.DSBitWidth)
    \o (IF d.DSMode = None \/ d.DSMode = Some("")
        THEN << <<"DSMode", Str("ThresholdMode")>> >>
        ELSE << <<"DSMode", Str(d.DSMode[1])>> >>)

OverrideElems(o) ==
    OptElem("VTh", o.VTh) \o OptElem("RLeak", o.RLeak) \o OptElem("refractory", o.refractory)

\* a matrix whose weights are given by their type and by the text str()
\* gives them, as [float |-> BOOLEAN, text |-> characters]
TypedSynapses(rows, cols, weights) ==
    [rows |-> rows, cols |-> cols, weights |-> weights, typed |-> TRUE]

\* text.rstrip(chars)
RECURSIVE rstrip(_, _)
rstrip(text, chars) ==
    IF text # <<>> /\ text[Len(text)] \in chars
    THEN rstrip(SubSeq(text, 1, Len(text) - 1), chars) ELSE text

\* sep.join(tokens)
RECURSIVE join(_, _)
join(sep, tokens) ==
    IF tokens = <<>> THEN <<>>
    ELSE IF Len(tokens) = 1 THEN tokens[1]
    ELSE tokens[1] \o sep \o join(sep, Tail(tokens))

\* the token of a float with the trailing zeros of its fractional part only
\* removed: the exponent is left alone
weight_token_mantissa_only(v) ==
    IF ~v.float THEN v.text
    ELSE LET e == {k \in 1..Len(v.text) : v.text[k] = "e"}
             cut == IF e = {} THEN Len(v.text) + 1 ELSE CHOOSE k \in e : TRUE
         IN  rstrip(rstrip(SubSeq(v.text, 1, cut - 1), {"0"}), {"."})
             \o SubSeq(v.text, cut, Len(v.text))

\* str(v).rstrip("0").rstrip(".") if isinstance(v, float) else str(v)
weight_token(v) ==
    IF v.float THEN rstrip(rstrip(v.text, {"0"}), {"."}) ELSE v.text

\* row_str = " ".join(... for v in row)
row_str(row) == join(<<" ">>, [j \in 1..Len(row) |-> weight_token(row[j])])

SynapsesElement(s) ==
    Element("synapses", <<Str(s.rows), Str(s.cols)>>,
            [i \in 1..Len(s.weights) |->
                <<"row", IF "typed" \in DOMAIN s THEN row_str(s.weights[i])
                         ELSE [j \in 1..Len(s.weights[i]) |-> Str(s.weights[i][j])]>>])

RangeElement(r) == Element("NeuronRange", <<Str(r.start), Str(r.end)>>, OverrideElems(r))

NeuronElement(n) == Element("Neuron", <<Str(n.index)>>, OverrideElems(n))

LayerElementNeuronsFirst(lyr) ==
    Element("Layer", <<Str(lyr.size)>>,
            <<SynapsesElement(lyr.synapses)>>
            \o [k \in 1..Len(lyr.neurons) |-> NeuronElement(lyr.neurons[k])]
            \o [k \in 1..Len(lyr.ranges) |-> RangeElement(lyr.ranges[k])])

\* <Layer>: the synapse block, the ranges, then the neuron overrides
LayerElement(lyr) ==
    Element("Layer", <<Str(lyr.size)>>,
            <<SynapsesElement(lyr.synapses)>>
            \o [k \in 1..Len(lyr.ranges) |-> RangeElement(lyr.ranges[k])]
            \o [k \in 1..Len(lyr.neurons) |-> NeuronElement(lyr.neurons[k])])

\* the companion document: _DEFAULT_SUPERVISOR_DEFAULTS, a fixed analog subset
SupervisorSection ==
    << <<"fclk", Str("10000000.0")>>, <<"RLeak", Str("1000000.0")>>, <<"VDD", Str("1.2")>>,
       <<"Cn", Str("1e-12")>>, <<"Cu", Str("4e-15")>> >>

Pending == [status |-> "pending", msg |-> "", biu |-> <<>>, arch |-> <<>>, sup |-> None]

Raised(kind, msg) == [status |-> kind, msg |-> msg, biu |-> <<>>, arch |-> <<>>, sup |-> None]

\* compile_to_xml: validate, then build the document; the ValueError raised or
\* the document (its defaults section and its Architecture section).
compile_to_xml(d, lyrs, include_supervisor) ==
    LET failure == FirstFailure(<<DefaultsValidate(d)>>
                                \o [j \in 1..Len(lyrs) |-> LayerValidate(lyrs[j])])
    IN  IF failure # OK THEN Raised("ValueError", failure)
        ELSE IF \E j \in 1..Len(lyrs) : Len(lyrs[j].synapses.weights) = 0
        THEN Raised("ValueError", "Missing required <weights> rows under <synapses>")
        ELSE [status |-> "ok", msg |-> "",
              biu |-> DefaultsSection(d),
              arch |-> [j \in 1..Len(lyrs) |-> LayerElement(lyrs[j])],
              sup |-> IF include_supervisor THEN Some(SupervisorSection) ELSE None]

\* ------------------------------------------------------------------------
\* Networks the precedence and emission properties are checked on: valid
\* networks whose neurons and override declarations number at most MaxNetwork
\* in all.  A declaration sets the fields
\* of one of FieldSets, and the value it gives them tags the declaration (the
\* k-th range of a layer gives k - 1, the k-th neuron override RangeTags + k,
\* the defaults DefaultTag), so a resolved value names the declaration it
\* came from.
\* ------------------------------------------------------------------------
FieldSets == {{"VTh"}, {"RLeak", "refractory"}}

NeuronTag(k) == 10 + k

DefaultTag == NeuronTag(0) + 10

OptIn(fs, f, v) == IF f \in fs THEN Some(v) ELSE None

RangeDecl(k, s, e, fs) ==
    NeuronOverrideRange(s, e, OptIn(fs, "VTh", k - 1), OptIn(fs, "RLeak", k - 1),
                        OptIn(fs, "refractory", k - 1))

NeuronDecl(k, i, fs) ==
    NeuronOverride(i, OptIn(fs, "VTh", NeuronTag(k)), OptIn(fs, "RLeak", NeuronTag(k)),
                   OptIn(fs, "refractory", NeuronTag(k)))

RangeLists(N, r) ==
    LET Choice == {c \in (0..N-1) \X (0..N-1) \X FieldSets : c[1] <= c[2]}
    IN  {[k \in 1..r |-> RangeDecl(k, c[k][1], c[k][2], c[k][3])] : c \in [1..r -> Choice]}

NeuronLists(N, n) ==
    LET Choice == (0..N-1) \X FieldSets
    IN  {[k \in 1..n |-> NeuronDecl(k, c[k][1], c[k][2])] : c \in [1..n -> Choice]}

\* a size x 1 weight matrix, row i holding the weight i
UnitSynapses(N) == Synapses(N, 1, [i \in 1..N |-> <<i>>])

\* the cost of a layer in the bound: its neurons and its override declarations
Cost(lyr) == lyr.size + Len(lyr.ranges) + Len(lyr.neurons)

\* the valid layers of cost at most b
LayerInputs(b) ==
    UNION {UNION {{Layer(N, UnitSynapses(N), rs, ns, None) :
                        rs \in RangeLists(N, rn[1]), ns \in NeuronLists(N, rn[2])} :
                  rn \in {x \in (0..b) \X (0..b) : N + x[1] + x[2] <= b}} :
           N \in 1..b}

\* the lists of layers of total cost at most b
RECURSIVE NetworkInputs(_)
NetworkInputs(b) ==
    {<<>>} \cup UNION {{<<lyr>> \o rest : rest \in NetworkInputs(b - Cost(lyr))} :
                       lyr \in LayerInputs(b)}

DefaultsInputs ==
    {BIUNetworkDefaults(OptIn(fs, "VTh", DefaultTag), OptIn(fs, "RLeak", DefaultTag),
                        OptIn(fs, "refractory", DefaultTag), Some(8), Some(50), None) :
        fs \in FieldSets}

\* ------------------------------------------------------------------------
\* Specification SpecEmit: materialize_precedence and compile_to_xml applied
\* to every valid network within the bounds.
\* ------------------------------------------------------------------------
NoCall == [fn |-> "none", include_supervisor |-> FALSE, out_dir |-> FALSE,
           data_input_file |-> FALSE, input_data |-> FALSE]

NoOutcome == [status |-> "pending", msg |-> "", probes |-> <<>>]

Calls == 1..MaxCalls

IdleNames ==
    /\ clock = 0
    /\ inv = [c \in Calls |-> [pc |-> "idle", ts |-> 0, written |-> 0]]
    /\ logFiles = <<>>

IdleConfig ==
    /\ cfgCall = <<>>
    /\ cfgPaths = <<>>
    /\ cfgResult = [status |-> "none"]

IdleProbe ==
    /\ outDir = <<>>
    /\ layerProbe = <<>>
    /\ probeCall = <<>>
    /\ probeResult = [status |-> "none"]

\* the arguments that make watch_probe read a file that exists without waiting
NoWait == [signal |-> "spikes", wait_for_file |-> FALSE, wait_timeout |-> None,
           poll_interval |-> 1]

WaitState(exists) ==
    /\ sigExists = exists
    /\ waitArgs = NoWait
    /\ monotonic = 0
    /\ deadline = None
    /\ watchError = "none"

IdleWait == WaitState(FALSE)

IdleHandles ==
    /\ hRead = <<>>
    /\ hFile = <<>>
    /\ hPc = "idle"
    /\ hPos = 0
    /\ hCount = 0
    /\ handles = 0

IdleLaunch ==
    /\ runner = <<>>
    /\ tree = <<>>
    /\ launchPc = "idle"
    /\ logsMade = FALSE
    /\ child = <<>>
    /\ launchResult = [status |-> "none"]

IdleDisk ==
    /\ probesJson = <<>>
    /\ freshModel = <<>>
    /\ compiles = 0

IdleModel ==
    /\ compiledModel = <<>>
    /\ configJson = <<>>
    /\ dirsOnDisk = {}
    /\ modelCall = <<>>
    /\ modelResult = [status |-> "none"]

IdleCall ==
    /\ call = NoCall
    /\ fsDir = FALSE
    /\ fsFiles = <<>>
    /\ outcome = NoOutcome

Streams == {"stdout", "stderr"}

NoReader == [pc |-> "none", line |-> 0]

IdleRun ==
    /\ runArgs = [stream_output |-> FALSE, stdout_callback |-> "none",
                  stderr_callback |-> "none", check |-> FALSE, timeout |-> FALSE]
    /\ mainPc = "idle"
    /\ pending = "none"
    /\ result = "none"
    /\ childState = "none"
    /\ returncode = 0
    /\ descendant = FALSE
    /\ emitted = [s \in Streams |-> <<>>]
    /\ pipe = [s \in Streams |-> <<>>]
    /\ logFh = [s \in Streams |-> "unopened"]
    /\ log = [s \in Streams |-> <<>>]
    /\ logWriters = [s \in Streams |-> {}]
    /\ reader = [s \in Streams |-> NoReader]
    /\ cbSeen = [s \in Streams |-> <<>>]
    /\ mirrored = [s \in Streams |-> <<>>]
    /\ timedOut = FALSE
    /\ wroteClosed = FALSE

IdleWatch ==
    /\ sigFile = <<>>
    /\ watchArgs = [follow |-> FALSE, max_events |-> None]
    /\ fhPos = 0
    /\ yielded = <<>>
    /\ watchPc = "done"

InitEmit ==
    /\ IdleWait
    /\ IdleProbe
    /\ IdleModel
    /\ IdleDisk
    /\ IdleLaunch
    /\ IdleHandles
    /\ IdleNames
    /\ IdleConfig
    /\ IdleWatch
    /\ IdleRun
    /\ defaults \in DefaultsInputs
    /\ layers \in NetworkInputs(MaxNetwork) \ {<<>>}
    /\ vectors = <<>>
    /\ doc = Pending
    /\ IdleCall

ResolveAll(d, lyrs) ==
    [j \in 1..Len(lyrs) |->
        materialize_precedence(lyrs[j].size, d, lyrs[j].ranges, lyrs[j].neurons)]

\* a direct call of materialize_precedence on each layer
Materialize ==
    /\ vectors = <<>>
    /\ doc = Pending
    /\ vectors' = ResolveAll(defaults, layers)
    /\ UNCHANGED <<defaults, layers, doc, call, fsDir, fsFiles, outcome, watchVars, runVars, nameVars, configVars, probeVars, waitVars, modelVars, diskVars, launchVars, handleVars>>

\* compile_to_xml (which resolves the vectors of each layer on its way)
CompileToXml ==
    /\ doc = Pending
    /\ doc' = compile_to_xml(defaults, layers, FALSE)
    /\ vectors' = IF doc'.status = "ok" THEN ResolveAll(defaults, layers) ELSE vectors
    /\ UNCHANGED <<defaults, layers, call, fsDir, fsFiles, outcome, watchVars, runVars, nameVars, configVars, probeVars, waitVars, modelVars, diskVars, launchVars, handleVars>>

NextEmit == Materialize \/ CompileToXml

SpecEmit == InitEmit /\ [][NextEmit]_vars

\* ------------------------------------------------------------------------
\* Claims on SpecEmit
\* ------------------------------------------------------------------------
MaxOf(S) == CHOOSE m \in S : \A x \in S : x <= m

\* the declarations of a layer that set field f at neuron i
Covering(lyr, i, f) ==
    {k \in 1..Len(lyr.ranges) :
        lyr.ranges[k].start <= i /\ i <= lyr.ranges[k].end /\ lyr.ranges[k][f] # None}

Overriding(lyr, i, f) ==
    {k \in 1..Len(lyr.neurons) : lyr.neurons[k].index = i /\ lyr.neurons[k][f] # None}

\* neuron > range > default, the last declaration winning within a level
Resolved(d, lyr, i, f) ==
    IF Overriding(lyr, i, f) # {} THEN lyr.neurons[MaxOf(Overriding(lyr, i, f))][f]
    ELSE IF Covering(lyr, i, f) # {} THEN lyr.ranges[MaxOf(Covering(lyr, i, f))][f]
    ELSE d[f]

\* C1: materialize_precedence returns, for each of VTh, RLeak and refractory, a
\* vector of length N whose entry at i is the value of the last-declared
\* single-neuron override at i that sets the field, else of the last-declared
\* range covering i that sets it, else the global default (possibly unset).
C1_Precedence ==
    vectors # <<>> =>
        \A j \in 1..Len(layers) : \A f \in OverrideFields :
            /\ Len(vectors[j][f]) = layers[j].size
            /\ \A i \in 0..(layers[j].size - 1) :
                    vectors[j][f][i + 1] = Resolved(defaults, layers[j], i, f)

\* the vectors are computed for a neuron that two ranges and a single override
\* set the same field of, and for a field that only ranges set
C1_Witness ==
    /\ vectors # <<>>
    /\ \E j \in 1..Len(layers) : \E i \in 0..(layers[j].size - 1) :
         \E f, g \in OverrideFields :
            /\ Cardinality(Covering(layers[j], i, f)) >= 2
            /\ Overriding(layers[j], i, f) # {}
            /\ Covering(layers[j], i, g) # {}
            /\ Overriding(layers[j], i, g) = {}

\* The consumer's rule: seed each neuron with the document's global default,
\* then apply the entries of the <Layer> in document order, a later entry
\* overwriting an earlier one, per field.
DocDefault(biu, f) ==
    IF \E k \in 1..Len(biu) : biu[k][1] = f
    THEN Some(Num(biu[CHOOSE k \in 1..Len(biu) : biu[k][1] = f][2]))
    ELSE None

Carried(el) == {el.children[k][1] : k \in 1..Len(el.children)}

CarriedValue(el, f) == Num(el.children[CHOOSE k \in 1..Len(el.children) : el.children[k][1] = f][2])

LoadEntry(vec, el, f) ==
    IF el.tag = "NeuronRange" /\ f \in Carried(el)
    THEN [i \in 1..Len(vec) |->
            IF Num(el.attrs[1]) <= i - 1 /\ i - 1 <= Num(el.attrs[2])
            THEN Some(CarriedValue(el, f)) ELSE vec[i]]
    ELSE IF el.tag = "Neuron" /\ f \in Carried(el)
    THEN [i \in 1..Len(vec) |->
            IF i - 1 = Num(el.attrs[1]) THEN Some(CarriedValue(el, f)) ELSE vec[i]]
    ELSE vec

RECURSIVE LoadEntries(_, _, _)
LoadEntries(vec, els, f) ==
    IF els = <<>> THEN vec
    ELSE LoadEntries(LoadEntry(vec, Head(els), f), Tail(els), f)

LoadLayer(biu, el) ==
    [f \in OverrideFields |->
        LoadEntries([i \in 1..Num(el.attrs[1]) |-> DocDefault(biu, f)], el.children, f)]

SetFields(o) == {f \in OverrideFields : o[f] # None}

CarriesExactly(el, o) ==
    /\ Len(el.children) = Cardinality(SetFields(o))
    /\ Carried(el) = SetFields(o)
    /\ \A f \in SetFields(o) : CarriedValue(el, f) = o[f][1]

\* C10: the primary document lists the layers in declaration order and, in
\* each layer, the synapse block, then the ranges in declaration order, then
\* the single-neuron overrides in declaration order, each carrying only its
\* set fields; applying the entries in document order on top of the emitted
\* defaults yields the vectors materialize_precedence computes.
C10_DocumentOrder ==
    doc.status = "ok" =>
        /\ Len(doc.arch) = Len(layers)
        /\ \A j \in 1..Len(layers) :
            LET el == doc.arch[j]
                lyr == layers[j]
                nr == Len(lyr.ranges)
            IN  /\ el.tag = "Layer" /\ el.attrs = <<Str(lyr.size)>>
                /\ Len(el.children) = 1 + nr + Len(lyr.neurons)
                /\ el.children[1].tag = "synapses"
                /\ \A k \in 1..nr :
                        /\ el.children[1 + k].tag = "NeuronRange"
                        /\ el.children[1 + k].attrs
                                = <<Str(lyr.ranges[k].start), Str(lyr.ranges[k].end)>>
                        /\ CarriesExactly(el.children[1 + k], lyr.ranges[k])
                /\ \A k \in 1..Len(lyr.neurons) :
                        /\ el.children[1 + nr + k].tag = "Neuron"
                        /\ el.children[1 + nr + k].attrs = <<Str(lyr.neurons[k].index)>>
                        /\ CarriesExactly(el.children[1 + nr + k], lyr.neurons[k])
                /\ LoadLayer(doc.biu, el) = vectors[j]

\* a document of two layers, one of which has a range and a single override
\* that set the same field of the same neuron
C10_Witness ==
    /\ doc.status = "ok"
    /\ Len(layers) >= 2
    /\ \E j \in 1..Len(layers) : \E i \in 0..(layers[j].size - 1) : \E f \in OverrideFields :
            Covering(layers[j], i, f) # {} /\ Overriding(layers[j], i, f) # {}

\* ------------------------------------------------------------------------
\* Probe follow mode (src/nemosdk/probe_utils.py, watch_probe)
\* ------------------------------------------------------------------------
Whitespace == {"\n", " "}

Chars == {"1", "2", "\n"}

\* str.strip()
RECURSIVE LStrip(_)
LStrip(str) ==
    IF str # <<>> /\ Head(str) \in Whitespace THEN LStrip(Tail(str)) ELSE str

RECURSIVE RStrip(_)
RStrip(str) ==
    IF str # <<>> /\ str[Len(str)] \in Whitespace
    THEN RStrip(SubSeq(str, 1, Len(str) - 1)) ELSE str

Strip(str) == RStrip(LStrip(str))

Digit(c) == CASE c = "0" -> 0 [] c = "1" -> 1 [] c = "2" -> 2

\* the caster of the spikes signal: int(value_str), on a string of digits
RECURSIVE IntOf(_)
IntOf(str) ==
    IF str = <<>> THEN 0
    ELSE 10 * IntOf(SubSeq(str, 1, Len(str) - 1)) + Digit(str[Len(str)])

\* fh.readline() at cursor pos: the characters up to and including the next
\* newline, or up to the end of the file when no newline follows; "" at the end
LineEnd(content, pos) ==
    IF \E k \in (pos + 1)..Len(content) : content[k] = "\n"
    THEN CHOOSE k \in (pos + 1)..Len(content) :
            /\ content[k] = "\n"
            /\ \A m \in (pos + 1)..(k - 1) : content[m] # "\n"
    ELSE Len(content)

ReadLine(content, pos) == SubSeq(content, pos + 1, LineEnd(content, pos))

CapReachedLate(args, n) == args.max_events # None /\ n > args.max_events[1]

\* max_events is not None and yielded >= max_events
CapReached(args, n) == args.max_events # None /\ n >= args.max_events[1]

\* The writer appends characters to the signal file.
WriterAppend ==
    /\ \E chunk \in UNION {[1..n -> Chars] : n \in 1..MaxFile} :
            /\ Len(sigFile) + Len(chunk) <= MaxFile
            /\ sigFile' = sigFile \o chunk
    /\ UNCHANGED <<watchArgs, fhPos, yielded, watchPc, compilerVars, runVars, nameVars, configVars, probeVars, waitVars, modelVars, diskVars, launchVars, handleVars>>

\* readline returns a line that is not blank: the value is cast and yielded
ReadValue ==
    /\ watchPc = "read"
    /\ ReadLine(sigFile, fhPos) # <<>>
    /\ Strip(ReadLine(sigFile, fhPos)) # <<>>
    /\ fhPos' = LineEnd(sigFile, fhPos)
    /\ yielded' = Append(yielded, IntOf(Strip(ReadLine(sigFile, fhPos))))
    /\ watchPc' = IF CapReached(watchArgs, Len(yielded')) THEN "done" ELSE "read"
    /\ UNCHANGED <<sigFile, watchArgs, compilerVars, runVars, nameVars, configVars, probeVars, waitVars, modelVars, diskVars, launchVars, handleVars>>

\* readline returns a blank line: continue
ReadBlank ==
    /\ watchPc = "read"
    /\ ReadLine(sigFile, fhPos) # <<>>
    /\ Strip(ReadLine(sigFile, fhPos)) = <<>>
    /\ fhPos' = LineEnd(sigFile, fhPos)
    /\ UNCHANGED <<sigFile, watchArgs, yielded, watchPc, compilerVars, runVars, nameVars, configVars, probeVars, waitVars, modelVars, diskVars, launchVars, handleVars>>

\* readline returns "": stop unless following, else sleep for poll_interval
ReadEof ==
    /\ watchPc = "read"
    /\ ReadLine(sigFile, fhPos) = <<>>
    /\ watchPc' = IF ~watchArgs.follow \/ CapReached(watchArgs, Len(yielded))
                  THEN "done" ELSE "sleep"
    /\ UNCHANGED <<sigFile, watchArgs, fhPos, yielded, compilerVars, runVars, nameVars, configVars, probeVars, waitVars, modelVars, diskVars, launchVars, handleVars>>

\* time.sleep(poll_interval) returns
Poll ==
    /\ watchPc = "sleep"
    /\ watchPc' = "read"
    /\ UNCHANGED <<sigFile, watchArgs, fhPos, yielded, compilerVars, runVars, nameVars, configVars, probeVars, waitVars, modelVars, diskVars, launchVars, handleVars>>

\* ------------------------------------------------------------------------
\* Specification SpecWatch: watch_probe on an existing spikes file that one
\* writer appends to.
\* ------------------------------------------------------------------------
IdleCompiler ==
    /\ defaults = BIUNetworkDefaults(None, None, None, None, None, None)
    /\ layers = <<>>
    /\ vectors = <<>>
    /\ doc = Pending
    /\ IdleCall

InitWatch ==
    /\ WaitState(TRUE)
    /\ IdleProbe
    /\ IdleModel
    /\ IdleDisk
    /\ IdleLaunch
    /\ IdleHandles
    /\ IdleNames
    /\ IdleConfig
    /\ IdleCompiler
    /\ IdleRun
    /\ sigFile = <<>>
    /\ watchArgs \in [follow : BOOLEAN, max_events : {None, Some(0), Some(1), Some(2)}]
    /\ fhPos = 0
    /\ yielded = <<>>
    /\ watchPc = "read"

NextWatch == WriterAppend \/ ReadValue \/ ReadBlank \/ ReadEof \/ Poll

SpecWatch == InitWatch /\ [][NextWatch]_vars

\* the values of a file: one per non-blank line, the characters after the last
\* newline counting as a line
RECURSIVE LinesFrom(_, _)
LinesFrom(content, pos) ==
    IF pos >= Len(content) THEN <<>>
    ELSE <<ReadLine(content, pos)>> \o LinesFrom(content, LineEnd(content, pos))

RECURSIVE ValuesOf(_)
ValuesOf(lines) ==
    IF lines = <<>> THEN <<>>
    ELSE (IF Strip(Head(lines)) = <<>> THEN <<>> ELSE <<IntOf(Strip(Head(lines)))>>)
         \o ValuesOf(Tail(lines))

WrittenValues == ValuesOf(LinesFrom(sigFile, 0))

IsPrefix(a, b) == Len(a) <= Len(b) /\ SubSeq(b, 1, Len(a)) = a

\* C2: with follow set, whatever the interleaving of the writer's appends (of
\* any number of characters) with the reader's reads and polls, the values
\* yielded so far are a prefix of the values the writer has written, one per
\* non-blank line, in file order.
C2_YieldedPrefixOfWritten ==
    watchArgs.follow => IsPrefix(yielded, WrittenValues)

\* ------------------------------------------------------------------------
\* One-step compile (src/nemosdk/compiler.py: _collect_probe_metadata,
\* compile, compile_and_write).  A probe name is a sequence of characters.
\* ------------------------------------------------------------------------
ProbeMetadata(name, layer_index, layer_size) ==
    [name |-> name, layer_index |-> layer_index, layer_size |-> layer_size]

\* the loop of _collect_probe_metadata from layer j on; metas holds the
\* metadata collected so far, keyed by the trimmed names
RECURSIVE CollectFrom(_, _, _)
CollectFrom(lyrs, j, metas) ==
    IF j > Len(lyrs) THEN [status |-> "ok", msg |-> "", probes |-> metas]
    ELSE IF lyrs[j].probe = None THEN CollectFrom(lyrs, j + 1, metas)
    ELSE LET raw == lyrs[j].probe[1]
             name == Strip(raw)
             keys == {metas[k].name : k \in 1..Len(metas)}
         IN  IF name = <<>>
             THEN [status |-> "ValueError", msg |-> "Probe name must be a non-empty string",
                   probes |-> <<>>]
             ELSE IF name \in keys
             THEN \* the message looks the untrimmed name up in probe_to_layer
                  IF raw \in keys
                  THEN [status |-> "ValueError", msg |-> "Duplicate probe name",
                        probes |-> <<>>]
                  ELSE [status |-> "KeyError", msg |-> "probe_to_layer[layer.probe]",
                        probes |-> <<>>]
             ELSE CollectFrom(lyrs, j + 1,
                              Append(metas, ProbeMetadata(name, j - 1, lyrs[j].size)))

_collect_probe_metadata(lyrs) == CollectFrom(lyrs, 1, <<>>)

\* what a call does: the exception raised or the kind of value returned, the
\* probe registry, whether out_dir was created, and the files written in order
Effect(status, msg, probes, mkdir, writes) ==
    [status |-> status, msg |-> msg, probes |-> probes, mkdir |-> mkdir, writes |-> writes]

\* the writes of compile and compile_and_write once the documents are built:
\* the documents are written before the stimulus arguments are looked at
WriteArtifacts(xml, probes, c) ==
    LET docs == <<"biu.xml">> \o (IF xml.sup # None THEN <<"supervisor.xml">> ELSE <<>>)
    IN  IF c.input_data
        THEN Effect("ok", "", probes, TRUE,
                    docs \o <<"input.txt", "config.json">>
                    \o (IF probes # <<>> THEN <<"probes.json">> ELSE <<>>))
        ELSE IF c.data_input_file
        THEN Effect("ok", "", probes, TRUE,
                    docs \o <<"config.json">>
                    \o (IF probes # <<>> THEN <<"probes.json">> ELSE <<>>))
        ELSE Effect("ValueError", "data_input_file must be provided", <<>>, TRUE, docs)

compile(d, lyrs, c) ==
    IF c.input_data /\ ~c.out_dir
    THEN Effect("ValueError", "input_data requires out_dir to be provided", <<>>, FALSE, <<>>)
    ELSE IF c.input_data /\ c.data_input_file
    THEN Effect("ValueError", "Provide either data_input_file or input_data, not both",
                <<>>, FALSE, <<>>)
    ELSE LET collected == _collect_probe_metadata(lyrs)
             xml == compile_to_xml(d, lyrs, c.include_supervisor)
         IN  IF collected.status # "ok"
             THEN Effect(collected.status, collected.msg, <<>>, FALSE, <<>>)
             ELSE IF xml.status # "ok"
             THEN Effect(xml.status, xml.msg, <<>>, FALSE, <<>>)
             ELSE IF ~c.out_dir
             THEN Effect("xml", "", <<>>, FALSE, <<>>)
             ELSE WriteArtifacts(xml, collected.probes, c)

compile_and_write(d, lyrs, c) ==
    IF c.input_data /\ c.data_input_file
    THEN Effect("ValueError", "Provide either data_input_file or input_data, not both",
                <<>>, FALSE, <<>>)
    ELSE LET collected == _collect_probe_metadata(lyrs)
             xml == compile_to_xml(d, lyrs, c.include_supervisor)
         IN  IF collected.status # "ok"
             THEN Effect(collected.status, collected.msg, <<>>, FALSE, <<>>)
             ELSE IF xml.status # "ok"
             THEN Effect(xml.status, xml.msg, <<>>, FALSE, <<>>)
             ELSE WriteArtifacts(xml, collected.probes, c)

\* compile(defaults, layers, ..., out_dir=..., data_input_file=..., input_data=...)
Compile ==
    /\ call.fn = "compile"
    /\ outcome.status = "pending"
    /\ LET e == compile(defaults, layers, call)
       IN  /\ outcome' = [status |-> e.status, msg |-> e.msg, probes |-> e.probes]
           /\ fsDir' = (fsDir \/ e.mkdir)
           /\ fsFiles' = fsFiles \o e.writes
    /\ UNCHANGED <<defaults, layers, vectors, doc, call, watchVars, runVars, nameVars, configVars, probeVars, waitVars, modelVars, diskVars, launchVars, handleVars>>

\* compile_and_write(defaults=..., layers=..., out_dir=..., ...)
CompileAndWrite ==
    /\ call.fn = "compile_and_write"
    /\ outcome.status = "pending"
    /\ LET e == compile_and_write(defaults, layers, call)
       IN  /\ outcome' = [status |-> e.status, msg |-> e.msg, probes |-> e.probes]
           /\ fsDir' = (fsDir \/ e.mkdir)
           /\ fsFiles' = fsFiles \o e.writes
    /\ UNCHANGED <<defaults, layers, vectors, doc, call, watchVars, runVars, nameVars, configVars, probeVars, waitVars, modelVars, diskVars, launchVars, handleVars>>

\* ------------------------------------------------------------------------
\* Specification SpecCompile: one call of compile or compile_and_write on a
\* network that may be invalid, into an out_dir that does not exist yet.
\* ------------------------------------------------------------------------
PlainDefaults(DSBitWidth, DSClockMHz, DSMode) ==
    BIUNetworkDefaults(Some(1), None, None, DSBitWidth, DSClockMHz, DSMode)

CompileDefaults ==
    {PlainDefaults(Some(8), Some(50), None), PlainDefaults(None, None, Some("")),
     PlainDefaults(Some(5), Some(50), None), PlainDefaults(Some(4), Some(0), None),
     PlainDefaults(Some(4), Some(50), Some("NotAMode"))}

ProbeNames == {None, Some(<<"p">>), Some(<<" ", "p">>), Some(<<"P">>), Some(<<" ">>)}

CompileLayers ==
    {Layer(1, UnitSynapses(1), <<>>, <<>>, pn) : pn \in ProbeNames}
    \cup {Layer(2, UnitSynapses(1), <<>>, <<>>, None),
          Layer(1, Synapses(1, 1, <<>>), <<>>, <<>>, None),
          Layer(0, Synapses(0, 1, <<>>), <<>>, <<>>, None),
          Layer(1, Synapses(1, 2, << <<1>> >>), <<>>, <<>>, None),
          Layer(1, UnitSynapses(1), <<RangeDecl(1, 0, 1, {"VTh"})>>, <<>>, None),
          Layer(1, UnitSynapses(1), <<>>, <<NeuronDecl(1, 1, {"VTh"})>>, None)}

CompileCalls ==
    {c \in [fn : {"compile", "compile_and_write"}, include_supervisor : BOOLEAN,
            out_dir : BOOLEAN, data_input_file : BOOLEAN, input_data : BOOLEAN] :
        c.fn = "compile_and_write" => c.out_dir}

InitCompile ==
    /\ IdleWait
    /\ IdleProbe
    /\ IdleModel
    /\ IdleDisk
    /\ IdleLaunch
    /\ IdleHandles
    /\ IdleNames
    /\ IdleConfig
    /\ IdleWatch
    /\ IdleRun
    /\ defaults \in CompileDefaults
    /\ layers \in UNION {[1..n -> CompileLayers] : n \in 1..MaxCompileLayers}
    /\ vectors = <<>>
    /\ doc = Pending
    /\ call \in CompileCalls
    /\ fsDir = FALSE
    /\ fsFiles = <<>>
    /\ outcome = NoOutcome

NextCompile == Compile \/ CompileAndWrite

SpecCompile == InitCompile /\ [][NextCompile]_vars

\* C3: when compile (called with out_dir) or compile_and_write raises a
\* validation error (ValueError), the call has created no directory and
\* written no file.
C3_NoArtifactsOnValueError ==
    (outcome.status = "ValueError" /\ call.out_dir) => (~fsDir /\ fsFiles = <<>>)

\* ------------------------------------------------------------------------
\* Process runner (src/nemosdk/runner.py, NemoSimRunner.run)
\* ------------------------------------------------------------------------
Callback(args, s) == IF s = "stdout" THEN args.stdout_callback ELSE args.stderr_callback

\* mirror_stdout / mirror_stderr: the stream is read through a pipe
Captured(args, s) == args.stream_output \/ Callback(args, s) # "none"

\* not mirror_stdout and not mirror_stderr
PlainMode(args) == \A s \in Streams : ~Captured(args, s)

\* is_success
is_success(code) == code = 0

\* with stdout_path.open("w") as out_fh, stderr_path.open("w") as err_fh
OpenLogs ==
    /\ mainPc = "open"
    /\ logFh' = [s \in Streams |-> "open"]
    /\ log' = [s \in Streams |-> <<>>]
    /\ mainPc' = "launch"
    /\ UNCHANGED <<runArgs, pending, result, childState, returncode, descendant, emitted, pipe,
                   logWriters, reader, cbSeen, mirrored, timedOut, wroteClosed,
                   compilerVars, watchVars, nameVars, configVars, probeVars, waitVars, modelVars, diskVars, launchVars, handleVars>>

\* subprocess.run / subprocess.Popen cannot start the child: OSError
LaunchFails ==
    /\ mainPc = "launch"
    /\ pending' = "OSError"
    /\ mainPc' = "close"
    /\ UNCHANGED <<runArgs, result, childState, returncode, descendant, emitted, pipe, logFh,
                   log, logWriters, reader, cbSeen, mirrored, timedOut, wroteClosed,
                   compilerVars, watchVars, nameVars, configVars, probeVars, waitVars, modelVars, diskVars, launchVars, handleVars>>

\* The child starts; in streaming mode a forwarder thread is made for each
\* captured stream and the threads are started.
Launch ==
    /\ mainPc = "launch"
    /\ childState' = "running"
    /\ descendant' \in BOOLEAN
    /\ reader' = [s \in Streams |->
                    IF Captured(runArgs, s) THEN [pc |-> "readline", line |-> 0]
                    ELSE NoReader]
    /\ mainPc' = "wait"
    /\ UNCHANGED <<runArgs, pending, result, returncode, emitted, pipe, logFh, log, logWriters,
                   cbSeen, mirrored, timedOut, wroteClosed, compilerVars, watchVars, nameVars, configVars, probeVars, waitVars, modelVars, diskVars, launchVars, handleVars>>

\* the reader of stream s has closed its end of the pipe
ReadEndClosed(s) == reader[s].pc \in {"done", "failed"}

\* The child writes its next line to stream s: into the pipe when the stream
\* is captured, else straight into the log file it was given.  A write to a
\* pipe nobody reads any more kills the child (SIGPIPE).
ChildWrite(s) ==
    /\ childState = "running"
    /\ Len(emitted[s]) < MaxLines
    /\ LET line == Len(emitted[s]) + 1
       IN  IF Captured(runArgs, s) /\ ReadEndClosed(s)
           THEN /\ childState' = "exited"
                /\ returncode' = -13
                /\ UNCHANGED <<emitted, pipe, log, logWriters>>
           ELSE /\ emitted' = [emitted EXCEPT ![s] = Append(@, line)]
                /\ IF Captured(runArgs, s)
                   THEN /\ pipe' = [pipe EXCEPT ![s] = Append(@, line)]
                        /\ UNCHANGED <<log, logWriters>>
                   ELSE /\ log' = [log EXCEPT ![s] = Append(@, line)]
                        /\ logWriters' = [logWriters EXCEPT ![s] = @ \cup {"child"}]
                        /\ UNCHANGED pipe
                /\ UNCHANGED <<childState, returncode>>
    /\ UNCHANGED <<runArgs, mainPc, pending, result, descendant, logFh, reader, cbSeen,
                   mirrored, timedOut, wroteClosed, compilerVars, watchVars, nameVars, configVars, probeVars, waitVars, modelVars, diskVars, launchVars, handleVars>>

\* The child exits of its own accord.
ChildExit ==
    /\ childState = "running"
    /\ childState' = "exited"
    /\ returncode' \in {0, 2}
    /\ UNCHANGED <<runArgs, mainPc, pending, result, descendant, emitted, pipe, logFh, log,
                   logWriters, reader, cbSeen, mirrored, timedOut, wroteClosed,
                   compilerVars, watchVars, nameVars, configVars, probeVars, waitVars, modelVars, diskVars, launchVars, handleVars>>

\* The descendant exits and with it the last copy of the write ends.
DescendantExit ==
    /\ descendant
    /\ childState # "none"
    /\ descendant' = FALSE
    /\ UNCHANGED <<runArgs, mainPc, pending, result, childState, returncode, emitted, pipe,
                   logFh, log, logWriters, reader, cbSeen, mirrored, timedOut, wroteClosed,
                   compilerVars, watchVars, nameVars, configVars, probeVars, waitVars, modelVars, diskVars, launchVars, handleVars>>

\* subprocess.run(...) / proc.wait(timeout=timeout) returns: the child exited
WaitReturns ==
    /\ mainPc = "wait"
    /\ childState = "exited"
    /\ childState' = "reaped"
    /\ mainPc' = "join"
    /\ UNCHANGED <<runArgs, pending, result, returncode, descendant, emitted, pipe, logFh, log,
                   logWriters, reader, cbSeen, mirrored, timedOut, wroteClosed,
                   compilerVars, watchVars, nameVars, configVars, probeVars, waitVars, modelVars, diskVars, launchVars, handleVars>>

\* the timeout expires while the child still runs: subprocess.TimeoutExpired
WaitTimesOut ==
    /\ mainPc = "wait"
    /\ runArgs.timeout
    /\ childState = "running"
    /\ timedOut' = TRUE
    /\ mainPc' = "kill"
    /\ UNCHANGED <<runArgs, pending, result, childState, returncode, descendant, emitted, pipe,
                   logFh, log, logWriters, reader, cbSeen, mirrored, wroteClosed,
                   compilerVars, watchVars, nameVars, configVars, probeVars, waitVars, modelVars, diskVars, launchVars, handleVars>>

\* proc.kill()
Kill ==
    /\ mainPc = "kill"
    /\ IF childState = "running"
       THEN childState' = "exited" /\ returncode' = -9
       ELSE UNCHANGED <<childState, returncode>>
    /\ mainPc' = "reap"
    /\ UNCHANGED <<runArgs, pending, result, descendant, emitted, pipe, logFh, log, logWriters,
                   reader, cbSeen, mirrored, timedOut, wroteClosed, compilerVars, watchVars, nameVars, configVars, probeVars, waitVars, modelVars, diskVars, launchVars, handleVars>>

\* proc.wait(), then raise TimeoutError(...) from exc
Reap ==
    /\ mainPc = "reap"
    /\ childState = "exited"
    /\ childState' = "reaped"
    /\ pending' = "TimeoutError"
    /\ mainPc' = "join"
    /\ UNCHANGED <<runArgs, result, returncode, descendant, emitted, pipe, logFh, log,
                   logWriters, reader, cbSeen, mirrored, timedOut, wroteClosed,
                   compilerVars, watchVars, nameVars, configVars, probeVars, waitVars, modelVars, diskVars, launchVars, handleVars>>

ThreadsTerminatedNoWait == TRUE

\* every thread.join() of "for thread in threads: thread.join()" can return
ThreadsTerminated == \A s \in Streams : reader[s].pc \in {"none", "done", "failed"}

\* finally: for thread in threads: thread.join()
Join ==
    /\ mainPc = "join"
    /\ ThreadsTerminated
    /\ mainPc' = "close"
    /\ UNCHANGED <<runArgs, pending, result, childState, returncode, descendant, emitted, pipe,
                   logFh, log, logWriters, reader, cbSeen, mirrored, timedOut, wroteClosed,
                   compilerVars, watchVars, nameVars, configVars, probeVars, waitVars, modelVars, diskVars, launchVars, handleVars>>

\* the with block is left: both handles are closed; an exception goes on to
\* the caller
CloseLogs ==
    /\ mainPc = "close"
    /\ logFh' = [s \in Streams |-> "closed"]
    /\ IF pending # "none"
       THEN result' = pending /\ mainPc' = "raised"
       ELSE result' = result /\ mainPc' = "result"
    /\ UNCHANGED <<runArgs, pending, childState, returncode, descendant, emitted, pipe, log,
                   logWriters, reader, cbSeen, mirrored, timedOut, wroteClosed,
                   compilerVars, watchVars, nameVars, configVars, probeVars, waitVars, modelVars, diskVars, launchVars, handleVars>>

\* result = RunResult(...); if check and proc.returncode != 0: raise RuntimeError
Result ==
    /\ mainPc = "result"
    /\ IF runArgs.check /\ returncode # 0
       THEN result' = "RuntimeError" /\ mainPc' = "raised"
       ELSE result' = "RunResult" /\ mainPc' = "returned"
    /\ UNCHANGED <<runArgs, pending, childState, returncode, descendant, emitted, pipe, logFh,
                   log, logWriters, reader, cbSeen, mirrored, timedOut, wroteClosed,
                   compilerVars, watchVars, nameVars, configVars, probeVars, waitVars, modelVars, diskVars, launchVars, handleVars>>

\* stream.readline() returns "": the pipe is empty and every write end is
\* closed (the child is gone and no descendant holds a copy)
AtEof(s) == pipe[s] = <<>> /\ childState \in {"exited", "reaped"} /\ ~descendant

\* for line in iter(stream.readline, ""): a line arrives
ReaderReadLine(s) ==
    /\ reader[s].pc = "readline"
    /\ pipe[s] # <<>>
    /\ reader' = [reader EXCEPT ![s] = [pc |-> "log", line |-> Head(pipe[s])]]
    /\ pipe' = [pipe EXCEPT ![s] = Tail(@)]
    /\ UNCHANGED <<runArgs, mainPc, pending, result, childState, returncode, descendant,
                   emitted, logFh, log, logWriters, cbSeen, mirrored, timedOut, wroteClosed,
                   compilerVars, watchVars, nameVars, configVars, probeVars, waitVars, modelVars, diskVars, launchVars, handleVars>>

\* the loop ends at end of file; finally: stream.close()
ReaderEof(s) ==
    /\ reader[s].pc = "readline"
    /\ AtEof(s)
    /\ reader' = [reader EXCEPT ![s] = [pc |-> "done", line |-> 0]]
    /\ UNCHANGED <<runArgs, mainPc, pending, result, childState, returncode, descendant,
                   emitted, pipe, logFh, log, logWriters, cbSeen, mirrored, timedOut,
                   wroteClosed, compilerVars, watchVars, nameVars, configVars, probeVars, waitVars, modelVars, diskVars, launchVars, handleVars>>

AfterLogSkipCallback(args, s) == IF args.stream_output THEN "mirror" ELSE "readline"

\* where the forwarder goes after a step of its loop body
AfterLog(args, s) ==
    IF Callback(args, s) # "none" THEN "callback"
    ELSE IF args.stream_output THEN "mirror" ELSE "readline"

AfterCallback(args, s) == IF args.stream_output THEN "mirror" ELSE "readline"

\* log_file.write(line); log_file.flush()
ReaderLog(s) ==
    /\ reader[s].pc = "log"
    /\ log' = [log EXCEPT ![s] = Append(@, reader[s].line)]
    /\ logWriters' = [logWriters EXCEPT ![s] = @ \cup {"reader"}]
    /\ wroteClosed' = (wroteClosed \/ logFh[s] # "open")
    /\ reader' = [reader EXCEPT ![s].pc = AfterLog(runArgs, s)]
    /\ UNCHANGED <<runArgs, mainPc, pending, result, childState, returncode, descendant,
                   emitted, pipe, logFh, cbSeen, mirrored, timedOut, compilerVars, watchVars, nameVars, configVars, probeVars, waitVars, modelVars, diskVars, launchVars, handleVars>>

\* callback(line) returns
ReaderCallback(s) ==
    /\ reader[s].pc = "callback"
    /\ cbSeen' = [cbSeen EXCEPT ![s] = Append(@, reader[s].line)]
    /\ reader' = [reader EXCEPT ![s].pc = AfterCallback(runArgs, s)]
    /\ UNCHANGED <<runArgs, mainPc, pending, result, childState, returncode, descendant,
                   emitted, pipe, logFh, log, logWriters, mirrored, timedOut, wroteClosed,
                   compilerVars, watchVars, nameVars, configVars, probeVars, waitVars, modelVars, diskVars, launchVars, handleVars>>

\* callback(line) raises: the thread ends; finally: stream.close()
ReaderCallbackRaises(s) ==
    /\ reader[s].pc = "callback"
    /\ Callback(runArgs, s) = "raises"
    /\ cbSeen' = [cbSeen EXCEPT ![s] = Append(@, reader[s].line)]
    /\ reader' = [reader EXCEPT ![s] = [pc |-> "failed", line |-> 0]]
    /\ UNCHANGED <<runArgs, mainPc, pending, result, childState, returncode, descendant,
                   emitted, pipe, logFh, log, logWriters, mirrored, timedOut, wroteClosed,
                   compilerVars, watchVars, nameVars, configVars, probeVars, waitVars, modelVars, diskVars, launchVars, handleVars>>

\* mirror_to(line): target_stream.write(line); target_stream.flush()
ReaderMirror(s) ==
    /\ reader[s].pc = "mirror"
    /\ mirrored' = [mirrored EXCEPT ![s] = Append(@, reader[s].line)]
    /\ reader' = [reader EXCEPT ![s].pc = "readline"]
    /\ UNCHANGED <<runArgs, mainPc, pending, result, childState, returncode, descendant,
                   emitted, pipe, logFh, log, logWriters, cbSeen, timedOut, wroteClosed,
                   compilerVars, watchVars, nameVars, configVars, probeVars, waitVars, modelVars, diskVars, launchVars, handleVars>>

\* ------------------------------------------------------------------------
\* Specification SpecRun: one call of run whose working directory and binary
\* exist, with a child that writes at most MaxLines lines to each stream.
\* ------------------------------------------------------------------------
InitRun ==
    /\ IdleWait
    /\ IdleProbe
    /\ IdleModel
    /\ IdleDisk
    /\ IdleLaunch
    /\ IdleHandles
    /\ IdleNames
    /\ IdleConfig
    /\ IdleCompiler
    /\ IdleWatch
    /\ runArgs \in [stream_output : BOOLEAN, stdout_callback : {"none", "returns", "raises"},
                    stderr_callback : {"none", "returns"}, check : BOOLEAN,
                    timeout : BOOLEAN]
    /\ mainPc = "open"
    /\ pending = "none"
    /\ result = "none"
    /\ childState = "none"
    /\ returncode = 0
    /\ descendant = FALSE
    /\ emitted = [s \in Streams |-> <<>>]
    /\ pipe = [s \in Streams |-> <<>>]
    /\ logFh = [s \in Streams |-> "unopened"]
    /\ log = [s \in Streams |-> <<>>]
    /\ logWriters = [s \in Streams |-> {}]
    /\ reader = [s \in Streams |-> NoReader]
    /\ cbSeen = [s \in Streams |-> <<>>]
    /\ mirrored = [s \in Streams |-> <<>>]
    /\ timedOut = FALSE
    /\ wroteClosed = FALSE

MainStep ==
    OpenLogs \/ LaunchFails \/ Launch \/ WaitReturns \/ WaitTimesOut \/ Kill \/ Reap \/ Join
    \/ CloseLogs \/ Result

ReaderStep(s) ==
    ReaderReadLine(s) \/ ReaderEof(s) \/ ReaderLog(s) \/ ReaderCallback(s)
    \/ ReaderCallbackRaises(s) \/ ReaderMirror(s)

NextRun ==
    \/ OpenLogs \/ LaunchFails \/ Launch \/ WaitReturns \/ WaitTimesOut \/ Kill \/ Reap
    \/ Join \/ CloseLogs \/ Result
    \/ \E s \in Streams : ChildWrite(s)
    \/ ChildExit
    \/ DescendantExit
    \/ \E s \in Streams : ReaderReadLine(s)
    \/ \E s \in Streams : ReaderEof(s)
    \/ \E s \in Streams : ReaderLog(s)
    \/ \E s \in Streams : ReaderCallback(s)
    \/ \E s \in Streams : ReaderCallbackRaises(s)
    \/ \E s \in Streams : ReaderMirror(s)

SpecRun == InitRun /\ [][NextRun]_vars

\* The main thread and each forwarder thread keep running while they can
\* take a step; nothing obliges the child or its descendants to act.
SpecRunFair ==
    /\ InitRun
    /\ [][NextRun]_vars
    /\ WF_vars(MainStep)
    /\ \A s \in Streams : WF_vars(ReaderStep(s))

IsPrefixOf(a, b) == Len(a) <= Len(b) /\ SubSeq(b, 1, Len(a)) = a

Returned == mainPc \in {"returned", "raised"}

\* C4: when the timeout expires with the child still running, run kills and
\* reaps the child, joins every reader and then always reaches the raise of
\* TimeoutError, in plain and in streaming mode; at the raise the child is
\* no longer running.
C4_TimeoutAlwaysRaises ==
    /\ [](result = "TimeoutError" => (timedOut /\ childState = "reaped" /\ ThreadsTerminated))
    /\ (timedOut ~> (mainPc = "raised" /\ result = "TimeoutError"))

\* C5: on every exit path after the logs were opened (return, RuntimeError,
\* TimeoutError, launch failure) both log handles are closed and every
\* reader thread has terminated when control returns, and no reader ever
\* writes to a log file that is already closed.
C5_NothingOutlivesCall ==
    /\ Returned => /\ \A s \in Streams : logFh[s] = "closed"
                   /\ ThreadsTerminated
    /\ ~wroteClosed

C5_Witness ==
    /\ mainPc = "raised"
    /\ result = "TimeoutError"
    /\ \A s \in Streams : reader[s].pc = "done" /\ log[s] # <<>>

NoCallbackRaised == \A s \in Streams : reader[s].pc # "failed"

\* what the callback, resp. the mirror, of stream s has received so far lags
\* the log by at most the line in hand
InOrderAfter(later, earlier) == IsPrefixOf(later, earlier) /\ Len(earlier) - Len(later) <= 1

\* C6: in streaming mode with callbacks that return normally, each line of a
\* captured stream goes to the log, then to the callback if given, then to
\* the mirror if stream_output, once and in emission order; one reader alone
\* writes each log; at return each log holds the stream's whole output.
C6_StreamingOrder ==
    (~PlainMode(runArgs) /\ NoCallbackRaised) =>
        \A s \in Streams :
            /\ IsPrefixOf(log[s], emitted[s])
            /\ Cardinality(logWriters[s]) <= 1
            /\ Captured(runArgs, s) =>
                /\ logWriters[s] \subseteq {"reader"}
                /\ IF Callback(runArgs, s) # "none"
                   THEN InOrderAfter(cbSeen[s], log[s])
                   ELSE cbSeen[s] = <<>>
                /\ IF runArgs.stream_output
                   THEN InOrderAfter(mirrored[s],
                                     IF Callback(runArgs, s) # "none" THEN cbSeen[s] ELSE log[s])
                   ELSE mirrored[s] = <<>>
            /\ mainPc = "returned" =>
                /\ log[s] = emitted[s]
                /\ (Captured(runArgs, s) /\ Callback(runArgs, s) # "none") => cbSeen[s] = emitted[s]
                /\ (Captured(runArgs, s) /\ runArgs.stream_output) => mirrored[s] = emitted[s]

C6_Witness ==
    /\ mainPc = "returned"
    /\ runArgs.stream_output
    /\ NoCallbackRaised
    /\ \A s \in Streams :
        /\ Callback(runArgs, s) # "none"
        /\ Len(emitted[s]) = MaxLines
        /\ mirrored[s] = emitted[s]

\* C8: a non-zero exit raises RuntimeError under check and is returned in a
\* RunResult without it; either way both logs are closed and hold all the
\* child wrote when control returns; under check a RunResult means exit
\* code 0, and is_success holds exactly for exit code 0.
C8_NonZeroExit ==
    /\ result = "RuntimeError" => (runArgs.check /\ ~is_success(returncode))
    /\ (result = "RunResult" /\ runArgs.check) => is_success(returncode)
    /\ (result \in {"RunResult", "RuntimeError"} /\ returncode # 0) =>
            \A s \in Streams : logFh[s] = "closed" /\ log[s] = emitted[s]

\* ------------------------------------------------------------------------
\* Log file naming (src/nemosdk/runner.py, NemoSimRunner.run, lines 106-124)
\* ------------------------------------------------------------------------

\* logs_dir / f"nemosim_{stream}_{ts}.log", ts the formatted clock reading
LogPath(s, ts) == <<"nemosim", s, ts, "log">>

\* the local wall clock advances by one microsecond
Tick ==
    /\ clock < MaxClock
    /\ clock' = clock + 1
    /\ UNCHANGED <<inv, logFiles, compilerVars, watchVars, runVars, configVars, probeVars, waitVars, modelVars, diskVars, launchVars, handleVars>>

\* ts = datetime.now().strftime("%Y%m%d_%H%M%S_%f")
SampleTimestamp(c) ==
    /\ inv[c].pc = "idle"
    /\ inv' = [inv EXCEPT ![c] = [pc |-> "open", ts |-> clock, written |-> 0]]
    /\ UNCHANGED <<clock, logFiles, compilerVars, watchVars, runVars, configVars, probeVars, waitVars, modelVars, diskVars, launchVars, handleVars>>

\* stdout_path.open("w"), stderr_path.open("w"): created or truncated
OpenLogFiles(c) ==
    /\ inv[c].pc = "open"
    /\ LET mine == {LogPath(s, inv[c].ts) : s \in Streams}
       IN  logFiles' = [f \in DOMAIN logFiles \cup mine |->
                           IF f \in mine THEN <<>> ELSE logFiles[f]]
    /\ inv' = [inv EXCEPT ![c].pc = "run"]
    /\ UNCHANGED <<clock, compilerVars, watchVars, runVars, configVars, probeVars, waitVars, modelVars, diskVars, launchVars, handleVars>>

\* the child of call c writes a line to its stdout, which is the log file
ChildOutput(c) ==
    /\ inv[c].pc = "run"
    /\ inv[c].written < MaxLines
    /\ logFiles' = [logFiles EXCEPT ![LogPath("stdout", inv[c].ts)] = Append(@, c)]
    /\ inv' = [inv EXCEPT ![c].written = @ + 1]
    /\ UNCHANGED <<clock, compilerVars, watchVars, runVars, configVars, probeVars, waitVars, modelVars, diskVars, launchVars, handleVars>>

\* the call returns its RunResult
Finish(c) ==
    /\ inv[c].pc = "run"
    /\ inv' = [inv EXCEPT ![c].pc = "done"]
    /\ UNCHANGED <<clock, logFiles, compilerVars, watchVars, runVars, configVars, probeVars, waitVars, modelVars, diskVars, launchVars, handleVars>>

\* ------------------------------------------------------------------------
\* Specification SpecLogNames: MaxCalls invocations of run, in threads or
\* processes of their own, that share one logs directory and one clock.
\* ------------------------------------------------------------------------
InitLogNames ==
    /\ IdleWait
    /\ IdleProbe
    /\ IdleModel
    /\ IdleDisk
    /\ IdleLaunch
    /\ IdleHandles
    /\ IdleCompiler
    /\ IdleWatch
    /\ IdleRun
    /\ IdleConfig
    /\ IdleNames

NextLogNames ==
    \/ Tick
    \/ \E c \in Calls : SampleTimestamp(c)
    \/ \E c \in Calls : OpenLogFiles(c)
    \/ \E c \in Calls : ChildOutput(c)
    \/ \E c \in Calls : Finish(c)

SpecLogNames == InitLogNames /\ [][NextLogNames]_vars

\* C7: any two invocations that use the same logs directory get different
\* stdout paths and different stderr paths, however close in time, so the
\* log of an invocation holds what its own child wrote and nothing else.
C7_DistinctLogPaths ==
    /\ \A c1, c2 \in Calls :
        (c1 # c2 /\ inv[c1].pc # "idle" /\ inv[c2].pc # "idle") =>
            \A s \in Streams : LogPath(s, inv[c1].ts) # LogPath(s, inv[c2].ts)
    /\ \A c \in Calls :
        inv[c].pc \in {"run", "done"} =>
            logFiles[LogPath("stdout", inv[c].ts)] = [i \in 1..inv[c].written |-> c]

\* ------------------------------------------------------------------------
\* Run configuration (src/nemosdk/compiler.py, build_run_config;
\* src/nemosdk/cli.py, _write_artifacts)
\* ------------------------------------------------------------------------

\* A path is a list of segments, absolute or not.
Path(abs, segs) == [abs |-> abs, segs |-> segs]

\* the directory the process runs in
Cwd == Path(TRUE, <<"w">>)

\* a / b
JoinPath(a, b) == IF b.abs THEN b ELSE Path(a.abs, a.segs \o b.segs)

RECURSIVE Normalise(_, _)
\* the segments left of a path once each ".." has removed the segment before
\* it; ".." at the root stays at the root
Normalise(done, rest) ==
    IF rest = <<>> THEN done
    ELSE IF Head(rest) = ".."
         THEN Normalise(IF done = <<>> THEN <<>> ELSE SubSeq(done, 1, Len(done) - 1), Tail(rest))
         ELSE Normalise(Append(done, Head(rest)), Tail(rest))

\* Path.resolve() on a tree without symbolic links
Resolve(p) == Path(TRUE, Normalise(<<>>, JoinPath(Cwd, p).segs))

\* to_abs: str(p.resolve())
to_abs(p) == Resolve(p)

ConfigFields == {"output_directory", "xml_config_path", "data_input_file", "sup_xml_config_path"}

\* the keys build_run_config writes for the paths it was given
GivenFields(paths) == {f \in ConfigFields : paths[f] # None}

\* build_run_config with the keywords of its signature
build_run_config(paths) == [f \in GivenFields(paths) |-> to_abs(paths[f][1])]

\* A caller builds the configuration directly, as the examples do; the
\* signature has no relativize_from keyword, so passing it is a TypeError.
BuildRunConfig ==
    /\ cfgResult.status = "none"
    /\ cfgCall.entry = "api"
    /\ cfgPaths' = [f \in ConfigFields |-> cfgCall[f]]
    /\ cfgResult' = IF cfgCall.base # None
                    THEN [status |-> "TypeError"]
                    ELSE [status |-> "ok", config |-> build_run_config(cfgPaths')]
    /\ UNCHANGED <<cfgCall, compilerVars, watchVars, runVars, nameVars, probeVars, waitVars, modelVars, diskVars, launchVars, handleVars>>

\* nemosdk build output_dir data_input_file [--sim-workdir base]
\* [--include-supervisor]
CliBuild ==
    /\ cfgResult.status = "none"
    /\ cfgCall.entry = "cli"
    /\ LET out_dir == cfgCall.output_directory[1]
       IN  cfgPaths' =
               [f \in ConfigFields |->
                   CASE f = "output_directory" -> Some(JoinPath(out_dir, Path(FALSE, <<"outputs">>)))
                     [] f = "xml_config_path" -> Some(JoinPath(out_dir, Path(FALSE, <<"biu.xml">>)))
                     [] f = "data_input_file" -> cfgCall.data_input_file
                     [] f = "sup_xml_config_path" ->
                           IF cfgCall.sup_xml_config_path # None
                           THEN Some(JoinPath(out_dir, Path(FALSE, <<"supervisor.xml">>)))
                           ELSE None]
    /\ cfgResult' = [status |-> "ok", config |-> build_run_config(cfgPaths')]
    /\ UNCHANGED <<cfgCall, compilerVars, watchVars, runVars, nameVars, probeVars, waitVars, modelVars, diskVars, launchVars, handleVars>>

RECURSIVE SegLists(_)
SegLists(n) ==
    IF n = 0 THEN {<<>>}
    ELSE SegLists(n - 1) \cup {Append(l, x) : l \in SegLists(n - 1), x \in {"a", ".."}}

PathInputs == {Path(abs, l) : abs \in BOOLEAN, l \in SegLists(MaxPath) \ {<<>>}}

DataInputs == {Path(FALSE, <<"..", "in.txt">>), Path(TRUE, <<"data", "in.txt">>)}

ConfigCalls ==
    [entry : {"api", "cli"},
     output_directory : {Some(q) : q \in PathInputs},
     xml_config_path : {Some(q) : q \in PathInputs},
     data_input_file : {Some(q) : q \in DataInputs},
     sup_xml_config_path : {None, Some(Path(FALSE, <<"a", "supervisor.xml">>))},
     base : {None} \cup {Some(q) : q \in PathInputs}]

\* ------------------------------------------------------------------------
\* Specification SpecConfig: one configuration is built, through the
\* function or through the command line, with or without a base directory.
\* ------------------------------------------------------------------------
InitConfig ==
    /\ IdleWait
    /\ IdleProbe
    /\ IdleModel
    /\ IdleDisk
    /\ IdleLaunch
    /\ IdleHandles
    /\ IdleCompiler
    /\ IdleWatch
    /\ IdleRun
    /\ IdleNames
    /\ cfgCall \in ConfigCalls
    /\ cfgCall.entry = "cli" => cfgCall.xml_config_path = cfgCall.output_directory
    /\ cfgPaths = <<>>
    /\ cfgResult = [status |-> "none"]

NextConfig == BuildRunConfig \/ CliBuild

SpecConfig == InitConfig /\ [][NextConfig]_vars

\* C9: with a base directory declared, the configuration is built, every
\* path value in it is non-absolute, and joining the value to the base and
\* normalising gives the location the absolute mode gives for that field.
C9_BaseRelativeMode ==
    (cfgResult.status # "none" /\ cfgCall.base # None) =>
        /\ cfgResult.status = "ok"
        /\ \A f \in DOMAIN cfgResult.config :
            /\ ~cfgResult.config[f].abs
            /\ Resolve(JoinPath(cfgCall.base[1], cfgResult.config[f])) = to_abs(cfgPaths[f][1])

\* ------------------------------------------------------------------------
\* Probe reads (src/nemosdk/compiler.py, LayerProbe)
\* ------------------------------------------------------------------------

\* _SIGNAL_CASTERS.keys()
Signals == {"spikes", "vin", "vns"}

\* the file "{signal}_{layer}_{rest}.txt" of the output directory; rest is a
\* string of characters
OutName(signal, layer, rest) == [signal |-> signal, layer |-> layer, rest |-> rest]

DigitChar(n) ==
    CASE n = 0 -> "0" [] n = 1 -> "1" [] n = 2 -> "2" [] n = 3 -> "3" [] n = 4 -> "4"
      [] n = 5 -> "5" [] n = 6 -> "6" [] n = 7 -> "7" [] n = 8 -> "8" [] n = 9 -> "9"

\* f"{neuron_idx}" for a non-negative index
RECURSIVE Decimal(_)
Decimal(n) == IF n < 10 THEN <<DigitChar(n)>> ELSE Decimal(n \div 10) \o <<DigitChar(n % 10)>>

\* int(parts[2]) does not raise ValueError
IsInt(str) == str # <<>> /\ \A k \in 1..Len(str) : str[k] \in {"0", "1", "2"}

\* sorted(indices)
RECURSIVE Sorted(_)
Sorted(S) ==
    IF S = {} THEN <<>>
    ELSE LET m == CHOOSE x \in S : \A y \in S : x <= y
         IN  <<m>> \o Sorted(S \ {m})

\* list(range(n))
Range(n) == [k \in 1..n |-> k - 1]

\* LayerProbe(layer_idx, output_dir, metadata)
LayerProbe(layer_idx, metadata) == [layer_idx |-> layer_idx, metadata |-> metadata]

\* self.output_dir.glob(f"{pattern_signal}_{self.layer_idx}_*.txt")
Glob(dir, signal, layer) == {f \in DOMAIN dir : f.signal = signal /\ f.layer = layer}

_list_neuron_indices(p, dir, signal) ==
    IF p.metadata # None THEN Range(p.metadata[1].layer_size)
    ELSE LET pattern_signal == IF signal # None THEN signal[1] ELSE "spikes"
         IN  Sorted({IntOf(f.rest) : f \in {g \in Glob(dir, pattern_signal, p.layer_idx) :
                                              IsInt(g.rest)}})

\* what a read does: the exception raised, or the value returned
Returns(v) == [status |-> "ok", value |-> v]

Raises(kind) == [status |-> kind]

NoResult == [status |-> "none"]

\* float(line.strip()) for the digits of the model
FloatOf(str) == [float |-> IntOf(str)]

\* _SIGNAL_CASTERS[signal]
Caster(signal, str) == IF signal = "spikes" THEN IntOf(str) ELSE FloatOf(str)

\* [caster(line.strip()) for line in fh if line.strip()]
RECURSIVE CastLines(_, _)
CastLines(signal, lines) ==
    IF lines = <<>> THEN <<>>
    ELSE (IF Strip(Head(lines)) = <<>> THEN <<>> ELSE <<Caster(signal, Strip(Head(lines)))>>)
         \o CastLines(signal, Tail(lines))

Series(signal, content) == CastLines(signal, LinesFrom(content, 0))

\* _signal_path: the ValueError for an unsupported signal, else the path
_signal_path(p, signal, neuron_idx) ==
    IF signal \notin Signals THEN Raises("ValueError")
    ELSE Returns(OutName(signal, p.layer_idx, Decimal(neuron_idx)))

_read_signal(p, dir, signal, neuron_idx) ==
    LET path == _signal_path(p, signal, neuron_idx)
    IN  IF path.status # "ok" THEN path
        ELSE IF path.value \notin DOMAIN dir THEN Raises("FileNotFoundError")
        ELSE Returns(Series(signal, dir[path.value]))

\* the reads of _load_all_signal, in list order
ReadsOf(p, dir, signal) ==
    LET listed == _list_neuron_indices(p, dir, Some(signal))
    IN  [k \in 1..Len(listed) |-> [neuron_idx |-> listed[k],
                                   read |-> _read_signal(p, dir, signal, listed[k])]]

_load_all_signal_strict(p, dir, signal) ==
    LET reads == ReadsOf(p, dir, signal)
    IN  IF \E k \in 1..Len(reads) : reads[k].read.status # "ok"
        THEN Raises(reads[CHOOSE k \in 1..Len(reads) :
                            /\ reads[k].read.status # "ok"
                            /\ \A m \in 1..(k - 1) : reads[m].read.status = "ok"].read.status)
        ELSE Returns([n \in {reads[k].neuron_idx : k \in 1..Len(reads)} |->
                        _read_signal(p, dir, signal, n).value])

\* _load_all_signal: FileNotFoundError is skipped, any other exception of a
\* read leaves the call
_load_all_signal(p, dir, signal) ==
    LET reads == ReadsOf(p, dir, signal)
        other == {k \in 1..Len(reads) : reads[k].read.status \notin {"ok", "FileNotFoundError"}}
    IN  IF other # {}
        THEN Raises(reads[CHOOSE k \in other : \A m \in other : k <= m].read.status)
        ELSE Returns([n \in {reads[k].neuron_idx : k \in {m \in 1..Len(reads) :
                                                            reads[m].read.status = "ok"}} |->
                        _read_signal(p, dir, signal, n).value])

\* a generator that was consumed to its end, or until it raised, and the
\* items it yielded
Ended(items) == [status |-> "ok", value |-> items]

RaisedAfter(kind, items) == [status |-> kind, value |-> items]

\* chunks without the final "if chunk: yield chunk"
RECURSIVE ChunksFullOnly(_, _)
ChunksFullOnly(series, chunk_size) ==
    IF Len(series) < chunk_size THEN <<>>
    ELSE <<SubSeq(series, 1, chunk_size)>>
         \o ChunksFullOnly(SubSeq(series, chunk_size + 1, Len(series)), chunk_size)

\* the chunks _iter_signal yields: full ones, then the rest if any
RECURSIVE Chunks(_, _)
Chunks(series, chunk_size) ==
    IF series = <<>> THEN <<>>
    ELSE IF Len(series) <= chunk_size THEN <<series>>
    ELSE <<SubSeq(series, 1, chunk_size)>>
         \o Chunks(SubSeq(series, chunk_size + 1, Len(series)), chunk_size)

\* _iter_signal that yields nothing for an absent file
_iter_signal_skip_missing(p, dir, signal, neuron_idx, chunk_size) ==
    IF chunk_size <= 0 THEN RaisedAfter("ValueError", <<>>)
    ELSE LET path == _signal_path(p, signal, neuron_idx)
         IN  IF path.status # "ok" THEN RaisedAfter(path.status, <<>>)
             ELSE IF path.value \notin DOMAIN dir THEN Ended(<<>>)
             ELSE Ended(Chunks(Series(signal, dir[path.value]), chunk_size))

_iter_signal(p, dir, signal, neuron_idx, chunk_size) ==
    IF chunk_size <= 0 THEN RaisedAfter("ValueError", <<>>)
    ELSE LET path == _signal_path(p, signal, neuron_idx)
         IN  IF path.status # "ok" THEN RaisedAfter(path.status, <<>>)
             ELSE IF path.value \notin DOMAIN dir THEN RaisedAfter("FileNotFoundError", <<>>)
             ELSE Ended(Chunks(Series(signal, dir[path.value]), chunk_size))

\* for neuron_idx in neuron_indices: for chunk in self._iter_signal(...):
\* yield neuron_idx, chunk -- from the k-th index on
RECURSIVE StreamFrom(_, _, _, _, _, _, _)
StreamFrom(p, dir, signal, neuron_indices, chunk_size, k, items) ==
    IF k > Len(neuron_indices) THEN Ended(items)
    ELSE LET it == _iter_signal(p, dir, signal, neuron_indices[k], chunk_size)
             here == [j \in 1..Len(it.value) |-> <<neuron_indices[k], it.value[j]>>]
         IN  IF it.status # "ok" THEN RaisedAfter(it.status, items \o here)
             ELSE StreamFrom(p, dir, signal, neuron_indices, chunk_size, k + 1, items \o here)

\* list(neurons) if neurons is not None else self._list_neuron_indices(signal=signal)
NeuronIndices(p, dir, signal, neurons) ==
    IF neurons # None THEN neurons[1] ELSE _list_neuron_indices(p, dir, Some(signal))

stream(p, dir, signal, neurons, chunk_size) ==
    StreamFrom(p, dir, signal, NeuronIndices(p, dir, signal, neurons), chunk_size, 1, <<>>)

iter_all_spikes(p, dir, chunk_size) ==
    StreamFrom(p, dir, "spikes", _list_neuron_indices(p, dir, Some("spikes")), chunk_size,
               1, <<>>)

\* float(value)
AsFloat(signal, v) == IF signal = "spikes" THEN v ELSE v.float

RECURSIVE SumOf(_)
SumOf(xs) == IF xs = <<>> THEN 0 ELSE Head(xs) + SumOf(Tail(xs))

\* the statistics summarize computes over the values of one neuron; the mean
\* is kept as the pair <<total, count>> of the quotient total / count
Summary(signal, series) ==
    LET xs == [k \in 1..Len(series) |-> AsFloat(signal, series[k])]
        S == {xs[k] : k \in 1..Len(xs)}
        stats == [count |-> Len(xs),
                  min |-> IF xs = <<>> THEN None
                          ELSE Some(CHOOSE x \in S : \A y \in S : x <= y),
                  max |-> IF xs = <<>> THEN None
                          ELSE Some(CHOOSE x \in S : \A y \in S : x >= y),
                  sum |-> SumOf(xs),
                  mean |-> IF xs = <<>> THEN None ELSE Some(<<SumOf(xs), Len(xs)>>)]
    IN  IF signal = "spikes" THEN stats @@ [spikes |-> SumOf(xs)] ELSE stats

\* summarize: the mapping of every index to its statistics, or the exception
\* of the first index whose iteration raises
summarize(p, dir, signal, neurons, chunk_size) ==
    LET neuron_indices == NeuronIndices(p, dir, signal, neurons)
        its == [k \in 1..Len(neuron_indices) |->
                    _iter_signal(p, dir, signal, neuron_indices[k], chunk_size)]
        bad == {k \in 1..Len(its) : its[k].status # "ok"}
    IN  IF bad # {} THEN Raises(its[CHOOSE k \in bad : \A m \in bad : k <= m].status)
        ELSE Returns([n \in {neuron_indices[k] : k \in 1..Len(neuron_indices)} |->
                        Summary(signal, Series(signal, dir[_signal_path(p, signal, n).value]))])

\* series[::sample_every]
EveryNth(series, sample_every) ==
    [j \in 1..((Len(series) + sample_every - 1) \div sample_every) |->
        series[(j - 1) * sample_every + 1]]

\* series[:max_rows]
FirstRows(series, max_rows) ==
    IF max_rows = None \/ Len(series) <= max_rows[1] THEN series
    ELSE SubSeq(series, 1, max_rows[1])

\* the (signal, neuron) pairs in the order of the two nested loops
Columns(signals, neuron_indices) ==
    [j \in 1..(Len(signals) * Len(neuron_indices)) |->
        <<signals[((j - 1) \div Len(neuron_indices)) + 1],
          neuron_indices[((j - 1) % Len(neuron_indices)) + 1]>>]

\* the loop body of to_dataframe from the k-th column on; expected_length
\* is 0 while it is None or 0, which "expected_length or len(series)"
\* treats alike
RECURSIVE FrameFrom(_, _, _, _, _, _, _, _)
FrameFrom(p, dir, columns, sample_every, max_rows, k, expected_length, data) ==
    IF k > Len(columns) THEN Returns(data)
    ELSE LET read == _read_signal(p, dir, columns[k][1], columns[k][2])
         IN  IF read.status # "ok" THEN read
             ELSE LET series == FirstRows(EveryNth(read.value, sample_every), max_rows)
                      expected == IF expected_length = 0 THEN Len(series)
                                  ELSE expected_length
                  IN  IF Len(series) # expected THEN Raises("ValueError")
                      ELSE FrameFrom(p, dir, columns, sample_every, max_rows, k + 1,
                                     expected, (columns[k] :> series) @@ data)

to_dataframe(p, dir, pandas, neurons, signals, sample_every, max_rows) ==
    IF sample_every < 1 THEN Raises("ValueError")
    ELSE IF ~pandas THEN Raises("RuntimeError")
    ELSE LET neuron_indices == IF neurons # None THEN neurons[1]
                               ELSE _list_neuron_indices(p, dir, None)
         IN  IF neuron_indices = <<>> \/ signals = <<>> THEN Returns(<<>>)
             ELSE FrameFrom(p, dir, Columns(signals, neuron_indices), sample_every,
                            max_rows, 1, 0, <<>>)

\* watch_probe up to path.open(), without wait_for_file
watch_probe_open(p, dir, signal, neuron_idx) ==
    LET path == _signal_path(p, signal, neuron_idx)
    IN  IF path.status # "ok" THEN path
        ELSE IF path.value \notin DOMAIN dir THEN Raises("FileNotFoundError")
        ELSE Returns(path.value)

\* the names and contents the simulator or anything else may leave in the
\* output directory
IdxTexts == {<<"0">>, <<"1">>, <<"0", "1">>, <<"x">>}

OutNames ==
    {OutName("spikes", 0, r) : r \in IdxTexts}
    \cup {OutName("vin", 0, <<"0">>), OutName("bogus", 0, <<"0">>),
          OutName("spikes", 1, <<"0">>)}

SigContents == {<<"1", "\n">>, <<"2", "\n", "\n", "1", "\n", "0">>}

\* The client makes one call at a time: probeCall and probeResult hold the
\* call under examination and are cleared by the next change of the
\* directory.  No call changes the directory or the probe, so every
\* combination of directory, probe and call is still reached.
\* a file appears in the output directory
OutputWritten ==
    /\ layerProbe # <<>>
    /\ Cardinality(DOMAIN outDir) < MaxOutFiles
    /\ \E f \in OutNames \ DOMAIN outDir : \E c \in SigContents :
            outDir' = [g \in DOMAIN outDir \cup {f} |-> IF g = f THEN c ELSE outDir[g]]
    /\ probeCall' = <<>>
    /\ probeResult' = NoResult
    /\ UNCHANGED <<layerProbe, compilerVars, watchVars, runVars, nameVars, configVars, waitVars, modelVars, diskVars, launchVars, handleVars>>

\* a file of the output directory is removed
OutputRemoved ==
    /\ \E f \in DOMAIN outDir : outDir' = [g \in DOMAIN outDir \ {f} |-> outDir[g]]
    /\ probeCall' = <<>>
    /\ probeResult' = NoResult
    /\ UNCHANGED <<layerProbe, compilerVars, watchVars, runVars, nameVars, configVars, waitVars, modelVars, diskVars, launchVars, handleVars>>

\* the signal arguments callers pass
SignalArgs == Signals \cup {"bogus"}

\* list_neuron_indices(), and _list_neuron_indices(signal=...) as the other
\* reads call it
ListNeuronIndices ==
    /\ layerProbe # <<>>
    /\ probeCall = <<>>
    /\ \E sg \in {None} \cup {Some(x) : x \in SignalArgs} :
            /\ probeCall' = [op |-> "list_neuron_indices", signal |-> sg]
            /\ probeResult' = Returns(_list_neuron_indices(layerProbe, outDir, sg))
    /\ UNCHANGED <<outDir, layerProbe, compilerVars, watchVars, runVars, nameVars, configVars, waitVars, modelVars, diskVars, launchVars, handleVars>>

\* the neuron indices callers ask for
NeuronArgs == 0..MaxLayerSize

\* get_spikes(neuron_idx), get_vin(neuron_idx), get_vns(neuron_idx)
ReadSignal ==
    /\ layerProbe # <<>>
    /\ probeCall = <<>>
    /\ \E sg \in Signals, n \in NeuronArgs :
            /\ probeCall' = [op |-> "get", signal |-> sg, neuron_idx |-> n]
            /\ probeResult' = _read_signal(layerProbe, outDir, sg, n)
    /\ UNCHANGED <<outDir, layerProbe, compilerVars, watchVars, runVars, nameVars, configVars,
                   waitVars, modelVars, diskVars, launchVars, handleVars>>

\* get_all_spikes(), get_all_vin(), get_all_vns()
LoadAllSignal ==
    /\ layerProbe # <<>>
    /\ probeCall = <<>>
    /\ \E sg \in Signals :
            /\ probeCall' = [op |-> "get_all", signal |-> sg]
            /\ probeResult' = _load_all_signal(layerProbe, outDir, sg)
    /\ UNCHANGED <<outDir, layerProbe, compilerVars, watchVars, runVars, nameVars, configVars,
                   waitVars, modelVars, diskVars, launchVars, handleVars>>

ChunkArgs == {0, 1, 2}

NeuronsArgs == {None, Some(<<1>>), Some(<<0, 1>>)}

\* list(iter_spikes(n, chunk_size=c)), and the same for iter_vin, iter_vns
IterSignal ==
    /\ layerProbe # <<>>
    /\ probeCall = <<>>
    /\ \E sg \in Signals, n \in NeuronArgs, c \in ChunkArgs :
            /\ probeCall' = [op |-> "iter", signal |-> sg, neuron_idx |-> n, chunk_size |-> c]
            /\ probeResult' = _iter_signal(layerProbe, outDir, sg, n, c)
    /\ UNCHANGED <<outDir, layerProbe, compilerVars, watchVars, runVars, nameVars, configVars,
                   waitVars, modelVars, diskVars, launchVars, handleVars>>

\* list(iter_all_spikes(chunk_size=c))
IterAllSpikes ==
    /\ layerProbe # <<>>
    /\ probeCall = <<>>
    /\ \E c \in ChunkArgs :
            /\ probeCall' = [op |-> "iter_all_spikes", signal |-> "spikes", neurons |-> None,
                             chunk_size |-> c]
            /\ probeResult' = iter_all_spikes(layerProbe, outDir, c)
    /\ UNCHANGED <<outDir, layerProbe, compilerVars, watchVars, runVars, nameVars, configVars,
                   waitVars, modelVars, diskVars, launchVars, handleVars>>

\* list(stream(signal, neurons=..., chunk_size=c))
Stream ==
    /\ layerProbe # <<>>
    /\ probeCall = <<>>
    /\ \E sg \in SignalArgs, ns \in NeuronsArgs, c \in ChunkArgs :
            /\ probeCall' = [op |-> "stream", signal |-> sg, neurons |-> ns, chunk_size |-> c]
            /\ probeResult' = stream(layerProbe, outDir, sg, ns, c)
    /\ UNCHANGED <<outDir, layerProbe, compilerVars, watchVars, runVars, nameVars, configVars,
                   waitVars, modelVars, diskVars, launchVars, handleVars>>

\* summarize(signal, neurons=..., chunk_size=c)
Summarize ==
    /\ layerProbe # <<>>
    /\ probeCall = <<>>
    /\ \E sg \in SignalArgs, ns \in NeuronsArgs, c \in ChunkArgs :
            /\ probeCall' = [op |-> "summarize", signal |-> sg, neurons |-> ns,
                             chunk_size |-> c]
            /\ probeResult' = summarize(layerProbe, outDir, sg, ns, c)
    /\ UNCHANGED <<outDir, layerProbe, compilerVars, watchVars, runVars, nameVars, configVars,
                   waitVars, modelVars, diskVars, launchVars, handleVars>>

\* next(watch_probe(probe, signal, n)) as far as the file is opened
WatchProbeOpen ==
    /\ layerProbe # <<>>
    /\ probeCall = <<>>
    /\ \E sg \in SignalArgs, n \in NeuronArgs :
            /\ probeCall' = [op |-> "watch_probe", signal |-> sg, neuron_idx |-> n]
            /\ probeResult' = watch_probe_open(layerProbe, outDir, sg, n)
    /\ UNCHANGED <<outDir, layerProbe, compilerVars, watchVars, runVars, nameVars, configVars,
                   waitVars, modelVars, diskVars, launchVars, handleVars>>

SignalsArgs == {<<>>, <<"spikes">>, <<"spikes", "vin">>, <<"bogus">>, <<"spikes", "bogus">>}

SampleArgs == {0, 1, 2}

RowsArgs == {None, Some(1)}

\* to_dataframe(neurons=..., signals=..., sample_every=..., max_rows=...),
\* with pandas installed or not
ToDataframe ==
    /\ layerProbe # <<>>
    /\ probeCall = <<>>
    /\ \E pandas \in BOOLEAN, ns \in NeuronsArgs, sgs \in SignalsArgs, se \in SampleArgs,
          mr \in RowsArgs :
            /\ probeCall' = [op |-> "to_dataframe", pandas |-> pandas, neurons |-> ns,
                             signals |-> sgs, sample_every |-> se, max_rows |-> mr]
            /\ probeResult' = to_dataframe(layerProbe, outDir, pandas, ns, sgs, se, mr)
    /\ UNCHANGED <<outDir, layerProbe, compilerVars, watchVars, runVars, nameVars, configVars,
                   waitVars, modelVars, diskVars, launchVars, handleVars>>

Probes ==
    {LayerProbe(0, md) :
        md \in {None} \cup {Some(ProbeMetadata(<<"p">>, 0, n)) : n \in 1..MaxLayerSize}}

\* ------------------------------------------------------------------------
\* Specification SpecProbe: reads through one probe of layer 0 while files
\* come and go in the output directory.
\* ------------------------------------------------------------------------
InitProbe ==
    /\ IdleWait
    /\ IdleModel
    /\ IdleDisk
    /\ IdleLaunch
    /\ IdleHandles
    /\ IdleCompiler
    /\ IdleWatch
    /\ IdleRun
    /\ IdleNames
    /\ IdleConfig
    /\ outDir = <<>>
    /\ layerProbe \in Probes
    /\ probeCall = <<>>
    /\ probeResult = NoResult

NextProbe ==
    \/ OutputWritten
    \/ OutputRemoved
    \/ ListNeuronIndices
    \/ ReadSignal
    \/ LoadAllSignal
    \/ IterSignal
    \/ IterAllSpikes
    \/ Stream
    \/ Summarize
    \/ WatchProbeOpen
    \/ ToDataframe

SpecProbe == InitProbe /\ [][NextProbe]_vars

\* the indices n whose file "{signal}_{layer}_{n}.txt" exists
IndicesWithFile(dir, signal, layer) ==
    {n \in 0..12 : OutName(signal, layer, Decimal(n)) \in DOMAIN dir}

Called(op) == probeCall # <<>> /\ probeCall.op = op

\* C11: with metadata the neuron-index list is [0, ..., layer_size-1]
\* whatever files exist; without metadata it is the sorted list of the
\* indices n for which the file {signal}_{layer_index}_{n}.txt exists,
\* signal defaulting to spikes.
C11_NeuronIndexList ==
    Called("list_neuron_indices") =>
        IF layerProbe.metadata # None
        THEN probeResult = Returns(Range(layerProbe.metadata[1].layer_size))
        ELSE probeResult =
                Returns(Sorted(IndicesWithFile(outDir,
                                               IF probeCall.signal # None
                                               THEN probeCall.signal[1] ELSE "spikes",
                                               layerProbe.layer_idx)))

\* C12: with max_events = k >= 0, whatever the file holds and whether or not
\* follow is set, at most k values are yielded, and once k values have been
\* yielded the iteration is over and does not poll again.
C12_AtMostMaxEvents ==
    watchArgs.max_events # None =>
        LET k == watchArgs.max_events[1]
        IN  /\ Len(yielded) <= k
            /\ Len(yielded) >= k => watchPc # "sleep"
            /\ (k >= 1 /\ Len(yielded) = k) => watchPc = "done"

\* ------------------------------------------------------------------------
\* Specification SpecFollow: watch_probe on an existing spikes file to which
\* one writer appends whole lines; the consumer keeps iterating and every
\* sleep returns.
\* ------------------------------------------------------------------------
WholeLines == {<<"1", "\n">>, <<"2", "\n">>, <<"\n">>}

\* the writer appends one whole line in one write
WriterAppendLine ==
    /\ \E line \in WholeLines :
            /\ Len(sigFile) + Len(line) <= MaxFile
            /\ sigFile' = sigFile \o line
    /\ UNCHANGED <<watchArgs, fhPos, yielded, watchPc, compilerVars, runVars, nameVars,
                   configVars, probeVars, waitVars, modelVars, diskVars, launchVars, handleVars>>

InitFollow ==
    /\ WaitState(TRUE)
    /\ IdleProbe
    /\ IdleModel
    /\ IdleDisk
    /\ IdleLaunch
    /\ IdleHandles
    /\ IdleNames
    /\ IdleConfig
    /\ IdleCompiler
    /\ IdleRun
    /\ sigFile \in {<<>>, <<"1", "\n">>}
    /\ watchArgs \in [follow : BOOLEAN, max_events : {None, Some(1), Some(2)}]
    /\ fhPos = 0
    /\ yielded = <<>>
    /\ watchPc = "read"

ConsumerStep == ReadValue \/ ReadBlank \/ ReadEof \/ Poll

NextFollow == WriterAppendLine \/ ReadValue \/ ReadBlank \/ ReadEof \/ Poll

SpecFollow == InitFollow /\ [][NextFollow]_vars /\ WF_vars(ConsumerStep)

FirstValues(k) == IF Len(WrittenValues) >= k THEN SubSeq(WrittenValues, 1, k) ELSE WrittenValues

\* C13: following with max_events = k >= 1 a file that a writer appends whole
\* lines to, once the file holds k values the consumer eventually has
\* received exactly the first k values in file order and the generator has
\* terminated; without follow the generator terminates, and when it stops at
\* the end of the file it has yielded the values present.
C13_FollowDelivers ==
    /\ \A k \in 1..MaxLines :
        (watchArgs.follow /\ watchArgs.max_events = Some(k) /\ Len(WrittenValues) >= k)
            ~> (watchPc = "done" /\ yielded = FirstValues(k))
    /\ (~watchArgs.follow) ~> (watchPc = "done")
    /\ [][(~watchArgs.follow /\ watchPc # "done" /\ watchPc' = "done"
          /\ ~CapReached(watchArgs, Len(yielded')))
            => yielded' = WrittenValues']_vars

\* the scenario of the specification: the file held one value when following
\* started with max_events = 2, a second one was appended, both were received
C13_Witness ==
    /\ watchArgs.follow
    /\ watchArgs.max_events = Some(2)
    /\ watchPc = "done"
    /\ yielded = FirstValues(2)
    /\ Len(yielded) = 2

\* ------------------------------------------------------------------------
\* The start of watch_probe (src/nemosdk/probe_utils.py, lines 45-60)
\* ------------------------------------------------------------------------

\* the wait raises: the generator is over
WatchRaises(kind) == watchError' = kind /\ watchPc' = "raised"

\* up to the first test of path.exists(): an unsupported signal is a
\* ValueError; a file that exists is opened; a missing file is
\* FileNotFoundError unless wait_for_file, and then the deadline is set
WatchStart ==
    /\ watchPc = "start"
    /\ IF waitArgs.signal \notin Signals
       THEN WatchRaises("ValueError") /\ UNCHANGED deadline
       ELSE IF sigExists
       THEN watchPc' = "read" /\ UNCHANGED <<deadline, watchError>>
       ELSE IF ~waitArgs.wait_for_file
       THEN WatchRaises("FileNotFoundError") /\ UNCHANGED deadline
       ELSE /\ deadline' = IF waitArgs.wait_timeout # None
                           THEN Some(monotonic + waitArgs.wait_timeout[1]) ELSE None
            /\ watchPc' = "wait"
            /\ UNCHANGED watchError
    /\ UNCHANGED <<sigFile, watchArgs, fhPos, yielded, sigExists, waitArgs, monotonic,
                   compilerVars, runVars, nameVars, configVars, probeVars, modelVars, diskVars, launchVars, handleVars>>

DeadlineNeverPassed(dl, now) == FALSE

\* deadline is not None and time.monotonic() >= deadline
DeadlinePassed(dl, now) == dl # None /\ now >= dl[1]

\* while not path.exists(): the deadline test, else on to time.sleep
WaitCheck ==
    /\ watchPc = "wait"
    /\ IF sigExists
       THEN watchPc' = "read" /\ UNCHANGED watchError
       ELSE IF DeadlinePassed(deadline, monotonic)
       THEN WatchRaises("TimeoutError")
       ELSE watchPc' = "waitsleep" /\ UNCHANGED watchError
    /\ UNCHANGED <<sigFile, watchArgs, fhPos, yielded, sigExists, waitArgs, monotonic, deadline,
                   compilerVars, runVars, nameVars, configVars, probeVars, modelVars, diskVars, launchVars, handleVars>>

\* the clock reading d later, the readings from MaxTime on counting as one
Later(t, d) == IF t + d >= MaxTime THEN MaxTime ELSE t + d

\* time.sleep(poll_interval) returns, poll_interval or more later
WaitSleep ==
    /\ watchPc = "waitsleep"
    /\ \E late \in {0, 1} : monotonic' = Later(monotonic, waitArgs.poll_interval + late)
    /\ watchPc' = "wait"
    /\ UNCHANGED <<sigFile, watchArgs, fhPos, yielded, sigExists, waitArgs, deadline, watchError,
                   compilerVars, runVars, nameVars, configVars, probeVars, modelVars, diskVars, launchVars, handleVars>>

\* the simulator creates the signal file
FileAppears ==
    /\ ~sigExists
    /\ watchPc # "done"
    /\ sigExists' = TRUE
    /\ sigFile' \in {<<"1", "\n">>, <<"\n", "2", "\n">>}
    /\ UNCHANGED <<watchArgs, fhPos, yielded, watchPc, waitArgs, monotonic, deadline, watchError,
                   compilerVars, runVars, nameVars, configVars, probeVars, modelVars, diskVars, launchVars, handleVars>>

WaitCalls ==
    [signal : {"spikes", "bogus"}, wait_for_file : BOOLEAN,
     wait_timeout : {None, Some(0), Some(1), Some(3)}, poll_interval : {1, 2}]

\* ------------------------------------------------------------------------
\* Specification SpecWait: watch_probe called while the signal file may not
\* exist yet; the consumer keeps iterating and every sleep returns.
\* ------------------------------------------------------------------------
InitWait ==
    /\ IdleProbe
    /\ IdleModel
    /\ IdleDisk
    /\ IdleLaunch
    /\ IdleHandles
    /\ IdleNames
    /\ IdleConfig
    /\ IdleCompiler
    /\ IdleRun
    /\ sigFile = <<>>
    /\ watchArgs \in [follow : BOOLEAN, max_events : {None, Some(1)}]
    /\ fhPos = 0
    /\ yielded = <<>>
    /\ watchPc = "start"
    /\ sigExists = FALSE
    /\ waitArgs \in WaitCalls
    /\ monotonic = 0
    /\ deadline = None
    /\ watchError = "none"

WatchStep == WatchStart \/ WaitCheck \/ WaitSleep \/ ReadValue \/ ReadBlank \/ ReadEof \/ Poll

NextWait ==
    \/ WatchStart \/ WaitCheck \/ WaitSleep \/ FileAppears
    \/ ReadValue \/ ReadBlank \/ ReadEof \/ Poll

SpecWait == InitWait /\ [][NextWait]_vars /\ WF_vars(WatchStep)

Waiting == watchPc \in {"wait", "waitsleep"}

Reading == watchPc \in {"read", "sleep", "done"}

\* C14: for a supported signal whose file is missing at the start: without
\* wait_for_file the call raises FileNotFoundError without waiting, whatever
\* wait_timeout is; with wait_for_file it polls, and once the file is there
\* it goes on to yield the file's values; with wait_timeout set and the file
\* still missing at the deadline it raises TimeoutError and never waits on;
\* with wait_timeout unset it waits until the file appears.
C14_WaitForFile ==
    /\ [][(watchPc = "start" /\ watchPc' # "start" /\ waitArgs.signal \in Signals
           /\ ~sigExists /\ ~waitArgs.wait_for_file)
            => (watchError' = "FileNotFoundError" /\ monotonic' = monotonic)]_vars
    /\ [](~waitArgs.wait_for_file => (~Waiting /\ watchError # "TimeoutError"))
    /\ [](watchError = "FileNotFoundError" => ~waitArgs.wait_for_file)
    /\ [][(watchError # "TimeoutError" /\ watchError' = "TimeoutError")
            => (waitArgs.wait_for_file /\ waitArgs.wait_timeout # None /\ ~sigExists
                /\ monotonic >= deadline[1])]_vars
    /\ [](Reading => sigExists)
    /\ (Waiting /\ sigExists) ~> (Reading /\ yielded # <<>>)
    /\ (Waiting /\ deadline # None /\ monotonic >= deadline[1])
            ~> (watchError = "TimeoutError" \/ sigExists)
    /\ (Waiting /\ waitArgs.wait_timeout # None) ~> (watchError = "TimeoutError" \/ sigExists)

\* the file appeared while watch_probe was sleeping with a deadline ahead,
\* and its values were yielded
C14_Witness ==
    /\ waitArgs.wait_for_file
    /\ waitArgs.wait_timeout = Some(3)
    /\ monotonic > 0
    /\ watchPc = "done"
    /\ yielded # <<>>

\* the trimmed probe names of the layers that carry one, in layer order
RECURSIVE TrimmedNames(_)
TrimmedNames(lyrs) ==
    IF lyrs = <<>> THEN <<>>
    ELSE (IF Head(lyrs).probe = None THEN <<>> ELSE <<Strip(Head(lyrs).probe[1])>>)
         \o TrimmedNames(Tail(lyrs))

HasEmptyProbeName(lyrs) == \E k \in 1..Len(TrimmedNames(lyrs)) : TrimmedNames(lyrs)[k] = <<>>

HasDuplicateProbeName(lyrs) ==
    \E k, m \in 1..Len(TrimmedNames(lyrs)) : k # m /\ TrimmedNames(lyrs)[k] = TrimmedNames(lyrs)[m]

ProbeMessages == {"Probe name must be a non-empty string", "Duplicate probe name"}

\* C15: when two layers carry probe names equal after trimming, or a layer
\* carries a name empty after trimming, compile raises ValueError before any
\* I/O; otherwise (names differing in case, layers without a name) no probe
\* error is raised.
C15_ProbeNameErrors ==
    outcome.status # "pending" =>
        IF HasEmptyProbeName(layers) \/ HasDuplicateProbeName(layers)
        THEN outcome.status = "ValueError" /\ ~fsDir /\ fsFiles = <<>>
        ELSE outcome.status # "KeyError" /\ outcome.msg \notin ProbeMessages

\* the argument checks of compile and compile_and_write pass
StimulusArgsAccepted(c) == ~(c.input_data /\ ~c.out_dir) /\ ~(c.input_data /\ c.data_input_file)

\* the error of the earliest failing step among: the defaults, then each
\* layer in declaration order
EarliestFailure(d, lyrs) ==
    FirstFailure(<<DefaultsValidate(d)>> \o [j \in 1..Len(lyrs) |-> LayerValidate(lyrs[j])])

\* C16: compile validates the defaults, then each layer in declaration
\* order, then the probe names, and raises the error of the earliest failing
\* step: a defaults or layer violation is the one reported even when the
\* probe names are invalid too.
C16_ValidationOrder ==
    (outcome.status # "pending" /\ StimulusArgsAccepted(call)
     /\ EarliestFailure(defaults, layers) # OK) =>
        /\ outcome.status = "ValueError"
        /\ outcome.msg = EarliestFailure(defaults, layers)

\* the neuron indices a read without a neurons argument goes through
Listed(signal) ==
    LET l == _list_neuron_indices(layerProbe, outDir, Some(signal))
    IN  {l[k] : k \in 1..Len(l)}

FileOf(signal, n) == OutName(signal, layerProbe.layer_idx, Decimal(n))

\* C17: a whole-layer eager read never raises not-found; it returns a
\* mapping whose keys are exactly the listed neuron indices whose signal
\* file exists, each mapped to the series the single-neuron read returns;
\* absent files are omitted and with no file the mapping is empty.
C17_WholeLayerRead ==
    Called("get_all") =>
        /\ probeResult.status = "ok"
        /\ DOMAIN probeResult.value =
                {n \in Listed(probeCall.signal) : FileOf(probeCall.signal, n) \in DOMAIN outDir}
        /\ \A n \in DOMAIN probeResult.value :
                /\ _read_signal(layerProbe, outDir, probeCall.signal, n)
                        = Returns(probeResult.value[n])
                /\ probeResult.value[n]
                        = Series(probeCall.signal, outDir[FileOf(probeCall.signal, n)])

\* a layer of two neurons with metadata of which only neuron 1 has a file
C17_Witness ==
    /\ Called("get_all")
    /\ layerProbe.metadata # None
    /\ layerProbe.metadata[1].layer_size = 2
    /\ probeResult.status = "ok"
    /\ DOMAIN probeResult.value = {1}

\* the neuron indices the call under examination reads
NeuronsRead ==
    IF "neuron_idx" \in DOMAIN probeCall THEN {probeCall.neuron_idx}
    ELSE IF probeCall.neurons # None
         THEN {probeCall.neurons[1][k] : k \in 1..Len(probeCall.neurons[1])}
         ELSE Listed(probeCall.signal)

SomeFileAbsent ==
    \E n \in NeuronsRead : FileOf(probeCall.signal, n) \notin DOMAIN outDir

\* a read other than the whole-layer eager read, with a supported signal
\* name and, where it takes one, a positive chunk size
ValidRead ==
    /\ probeCall # <<>>
    /\ probeCall.op \in {"get", "iter", "iter_all_spikes", "stream", "summarize",
                         "watch_probe"}
    /\ probeCall.signal \in Signals
    /\ "chunk_size" \in DOMAIN probeCall => probeCall.chunk_size > 0

\* C18: a single-neuron eager read, a chunked iteration, iter_all_spikes,
\* stream, summarize or watch_probe without wait_for_file, called with a
\* supported signal and a positive chunk size, raises FileNotFoundError
\* when the signal file of a requested or listed neuron is absent; stream
\* then yields nothing of the absent neuron or of the neurons after it,
\* and summarize returns no result at all.
C18_MissingFileRaises ==
    (ValidRead /\ SomeFileAbsent) =>
        /\ probeResult.status = "FileNotFoundError"
        /\ Called("summarize") => probeResult = Raises("FileNotFoundError")
        /\ probeCall.op \in {"stream", "iter_all_spikes"} =>
                \A k \in 1..Len(probeResult.value) :
                    FileOf(probeCall.signal, probeResult.value[k][1]) \in DOMAIN outDir

\* summarize over a metadata-backed layer of two neurons where only
\* neuron 0 has a file
C18_Witness ==
    /\ Called("summarize")
    /\ ValidRead
    /\ probeCall.neurons = None
    /\ layerProbe.metadata # None
    /\ layerProbe.metadata[1].layer_size = 2
    /\ FileOf(probeCall.signal, 0) \in DOMAIN outDir
    /\ FileOf(probeCall.signal, 1) \notin DOMAIN outDir
    /\ probeResult = Raises("FileNotFoundError")

\* the signal names the call under examination was given
SignalsGiven ==
    IF "signals" \in DOMAIN probeCall
    THEN {probeCall.signals[k] : k \in 1..Len(probeCall.signals)}
    ELSE {probeCall.signal}

NameOrder == << <<"a">>, <<"p">>, <<"z">> >>

RegisteredNames == {<<"a">>, <<"p">>}

\* the directories config.json may name as "output_directory"
OutputDirs == {"out/output", "sim/output"}

\* sorted(self.probe_to_layer.keys())
list_probes(cm) == SelectSeq(NameOrder, LAMBDA n : n \in DOMAIN cm.probe_to_layer)

\* _load_config: config.json is read once and kept in _config_cache
_load_config(cm, json) == IF cm._config_cache = None THEN json ELSE cm._config_cache[1]

_get_output_directory(cm, json, dirs) ==
    LET output_dir == _load_config(cm, json).output_directory
    IN  IF output_dir \notin dirs THEN Raises("FileNotFoundError")
        ELSE Returns(output_dir)

\* get_probe that looks for the output directory before the name
get_probe_directory_first(cm, json, dirs, probe_name) ==
    LET output_dir == _get_output_directory(cm, json, dirs)
    IN  IF output_dir.status # "ok" THEN output_dir
        ELSE IF probe_name \notin DOMAIN cm.probe_to_layer
        THEN [status |-> "KeyError", name |-> probe_name, available |-> list_probes(cm)]
        ELSE Returns([output_dir |-> output_dir.value,
                      probe |-> LayerProbe(cm.probe_to_layer[probe_name],
                                           IF probe_name \in DOMAIN cm.probe_metadata
                                           THEN Some(cm.probe_metadata[probe_name])
                                           ELSE None)])

get_probe(cm, json, dirs, probe_name) ==
    IF probe_name \notin DOMAIN cm.probe_to_layer
    THEN [status |-> "KeyError", name |-> probe_name, available |-> list_probes(cm)]
    ELSE LET output_dir == _get_output_directory(cm, json, dirs)
         IN  IF output_dir.status # "ok" THEN output_dir
             ELSE Returns([output_dir |-> output_dir.value,
                           probe |-> LayerProbe(cm.probe_to_layer[probe_name],
                                                IF probe_name \in DOMAIN cm.probe_metadata
                                                THEN Some(cm.probe_metadata[probe_name])
                                                ELSE None)])

\* the simulator, or anything else, creates a directory
DirCreated ==
    /\ compiledModel # <<>>
    /\ \E d \in OutputDirs \ dirsOnDisk : dirsOnDisk' = dirsOnDisk \cup {d}
    /\ modelCall' = <<>>
    /\ modelResult' = NoResult
    /\ UNCHANGED <<compiledModel, configJson, compilerVars, watchVars, runVars, nameVars,
                   configVars, probeVars, waitVars, diskVars, launchVars, handleVars>>

DirRemoved ==
    /\ compiledModel # <<>>
    /\ \E d \in dirsOnDisk : dirsOnDisk' = dirsOnDisk \ {d}
    /\ modelCall' = <<>>
    /\ modelResult' = NoResult
    /\ UNCHANGED <<compiledModel, configJson, compilerVars, watchVars, runVars, nameVars,
                   configVars, probeVars, waitVars, diskVars, launchVars, handleVars>>

\* compiled.get_probe(name); config.json is cached once it has been read
GetProbe ==
    /\ compiledModel # <<>>
    /\ \E name \in {NameOrder[k] : k \in 1..Len(NameOrder)} :
            /\ modelCall' = [op |-> "get_probe", probe_name |-> name]
            /\ modelResult' = get_probe(compiledModel, configJson, dirsOnDisk, name)
            /\ compiledModel' =
                    IF name \in DOMAIN compiledModel.probe_to_layer
                    THEN [compiledModel EXCEPT
                            !._config_cache = Some(_load_config(compiledModel, configJson))]
                    ELSE compiledModel
    /\ UNCHANGED <<configJson, dirsOnDisk, compilerVars, watchVars, runVars, nameVars,
                   configVars, probeVars, waitVars, diskVars, launchVars, handleVars>>

\* compiled.list_probes()
ListProbes ==
    /\ compiledModel # <<>>
    /\ modelCall' = [op |-> "list_probes"]
    /\ modelResult' = Returns(list_probes(compiledModel))
    /\ UNCHANGED <<compiledModel, configJson, dirsOnDisk, compilerVars, watchVars, runVars,
                   nameVars, configVars, probeVars, waitVars, diskVars, launchVars, handleVars>>

\* the registries a CompiledModel can hold after construction: any names
\* mapped to layer indices, and metadata for any of the names
Registries ==
    UNION {[names -> 0..1] : names \in SUBSET RegisteredNames}

Metadatas ==
    UNION {{md \in [names -> {ProbeMetadata(n, 0, sz) :
                                n \in names, sz \in 1..MaxLayerSize}] :
                \A n \in names : md[n].name = n}
           : names \in SUBSET RegisteredNames}

\* ------------------------------------------------------------------------
\* Specification SpecModel: get_probe and list_probes on one CompiledModel
\* while output directories come and go.
\* ------------------------------------------------------------------------
InitModel ==
    /\ IdleWait
    /\ IdleDisk
    /\ IdleLaunch
    /\ IdleHandles
    /\ IdleProbe
    /\ IdleCompiler
    /\ IdleWatch
    /\ IdleRun
    /\ IdleNames
    /\ IdleConfig
    /\ \E reg \in Registries, md \in Metadatas :
            compiledModel = [probe_to_layer |-> reg, probe_metadata |-> md,
                             _config_cache |-> None]
    /\ \E d \in OutputDirs : configJson = [output_directory |-> d]
    /\ dirsOnDisk \in SUBSET OutputDirs
    /\ modelCall = <<>>
    /\ modelResult = NoResult

NextModel ==
    \/ DirCreated
    \/ DirRemoved
    \/ GetProbe
    \/ ListProbes

SpecModel == InitModel /\ [][NextModel]_vars

CalledModel(op) == modelCall # <<>> /\ modelCall.op = op

\* C20: get_probe of a name that is not registered raises KeyError with
\* every registered name in its message, whether or not the output
\* directory exists; get_probe of a registered name returns a probe bound
\* to the name's layer index and metadata when the output directory named
\* in config.json exists and raises FileNotFoundError when it does not.
C20_GetProbe ==
    CalledModel("get_probe") =>
        LET name == modelCall.probe_name
            reg == compiledModel.probe_to_layer
            md == compiledModel.probe_metadata
        IN  IF name \notin DOMAIN reg
            THEN /\ modelResult.status = "KeyError"
                 /\ modelResult.name = name
                 /\ \A n \in DOMAIN reg :
                        \E k \in 1..Len(modelResult.available) : modelResult.available[k] = n
            ELSE IF configJson.output_directory \in dirsOnDisk
            THEN /\ modelResult.status = "ok"
                 /\ modelResult.value.output_dir = configJson.output_directory
                 /\ modelResult.value.probe.layer_idx = reg[name]
                 /\ modelResult.value.probe.metadata =
                        IF name \in DOMAIN md THEN Some(md[name]) ELSE None
            ELSE modelResult = Raises("FileNotFoundError")

\* an unknown name asked of a model with two registered probes whose output
\* directory does not exist
C20_Witness ==
    /\ CalledModel("get_probe")
    /\ modelCall.probe_name = <<"z">>
    /\ DOMAIN compiledModel.probe_to_layer = RegisteredNames
    /\ configJson.output_directory \notin dirsOnDisk
    /\ modelResult.status = "KeyError"
    /\ modelResult.available = << <<"a">>, <<"p">> >>

\* ------------------------------------------------------------------------
\* The persisted probe registry: probes.json written by compile and read
\* back by CompiledModel.__init__
\* ------------------------------------------------------------------------
MaxCompiles == 2

\* ProbeMetadata.to_dict: the JSON object of one probe
to_dict(meta) ==
    [key \in {"name", "layer_index", "layer_size"} |->
        IF key = "name" THEN meta.name
        ELSE IF key = "layer_index" THEN meta.layer_index
        ELSE meta.layer_size]

\* ProbeMetadata.from_dict
from_dict_swapped(data) ==
    ProbeMetadata(data["name"], data["layer_size"], data["layer_index"])

from_dict(data) ==
    ProbeMetadata(data["name"], data["layer_index"], data["layer_size"])

\* {"probes": [meta.to_dict() for meta in probe_metadata.values()]}
ProbesDocument(probes) == [k \in 1..Len(probes) |-> to_dict(probes[k])]

\* the two dictionaries _collect_probe_metadata returns
RegistryOf(probes) ==
    [n \in {probes[k].name : k \in 1..Len(probes)} |->
        (CHOOSE m \in {probes[k] : k \in 1..Len(probes)} : m.name = n).layer_index]

MetadataOf(probes) ==
    [n \in {probes[k].name : k \in 1..Len(probes)} |->
        CHOOSE m \in {probes[k] : k \in 1..Len(probes)} : m.name = n]

\* the setdefault loop over the entries of probes.json from the k-th on
RECURSIVE LoadFrom(_, _, _)
LoadFrom(entries, k, cm) ==
    IF k > Len(entries) THEN cm
    ELSE LET meta == from_dict(entries[k])
             md == IF meta.name \in DOMAIN cm.probe_metadata THEN cm.probe_metadata
                   ELSE (meta.name :> meta) @@ cm.probe_metadata
             reg == IF meta.name \in DOMAIN cm.probe_to_layer THEN cm.probe_to_layer
                    ELSE (meta.name :> meta.layer_index) @@ cm.probe_to_layer
         IN  LoadFrom(entries, k + 1,
                      [cm EXCEPT !.probe_metadata = md, !.probe_to_layer = reg])

_load_probe_metadata_from_disk(cm, disk) ==
    IF disk = None THEN cm ELSE LoadFrom(disk[1], 1, cm)

\* CompiledModel(config_path, probe_to_layer, probe_metadata) next to a
\* probes.json holding disk
CompiledModelInit(probe_to_layer, probe_metadata, disk) ==
    LET cm == [probe_to_layer |-> probe_to_layer, probe_metadata |-> probe_metadata,
               _config_cache |-> None]
    IN  IF DOMAIN probe_to_layer = {} \/ DOMAIN probe_metadata = {}
        THEN _load_probe_metadata_from_disk(cm, disk)
        ELSE cm

\* the networks compiled: with and without probes, a name to be trimmed, a
\* probe that changes layer and size, and a duplicate name
ProbedLayer(size, probe) == Layer(size, UnitSynapses(size), <<>>, <<>>, probe)

RecompileNetworks ==
    {<<ProbedLayer(1, None)>>,
     <<ProbedLayer(1, Some(<<"p">>))>>,
     <<ProbedLayer(2, Some(<<"p">>))>>,
     <<ProbedLayer(1, Some(<<"p">>)), ProbedLayer(1, Some(<<"a">>))>>,
     <<ProbedLayer(1, None), ProbedLayer(2, Some(<<" ", "p">>))>>,
     <<ProbedLayer(1, Some(<<"a">>)), ProbedLayer(1, None)>>,
     <<ProbedLayer(1, Some(<<"p">>)), ProbedLayer(1, Some(<<"p">>))>>}

RecompileCalls ==
    {c \in CompileCalls : c.out_dir /\ ~c.include_supervisor /\ ~c.input_data}

\* the files of out_dir after more files were written
FilesAfter(files, writes) ==
    files \o SelectSeq(writes, LAMBDA f : \A k \in 1..Len(files) : files[k] # f)

\* one more compile or compile_and_write into the same out_dir; compile
\* returns a CompiledModel, compile_and_write the configuration
Recompile ==
    /\ compiles < MaxCompiles
    /\ \E lyrs \in RecompileNetworks, c \in RecompileCalls :
         LET e == IF c.fn = "compile" THEN compile(defaults, lyrs, c)
                  ELSE compile_and_write(defaults, lyrs, c)
             disk == IF \E k \in 1..Len(e.writes) : e.writes[k] = "probes.json"
                     THEN Some(ProbesDocument(e.probes))
                     ELSE probesJson
         IN  /\ layers' = lyrs
             /\ call' = c
             /\ outcome' = [status |-> e.status, msg |-> e.msg, probes |-> e.probes]
             /\ fsDir' = (fsDir \/ e.mkdir)
             /\ fsFiles' = FilesAfter(fsFiles, e.writes)
             /\ probesJson' = disk
             /\ compiledModel' =
                    IF e.status = "ok" /\ c.fn = "compile"
                    THEN CompiledModelInit(RegistryOf(e.probes), MetadataOf(e.probes), disk)
                    ELSE <<>>
    /\ freshModel' = <<>>
    /\ compiles' = compiles + 1
    /\ UNCHANGED <<defaults, vectors, doc, configJson, dirsOnDisk, modelCall, modelResult,
                   watchVars, runVars, nameVars, configVars, probeVars, waitVars, launchVars, handleVars>>

\* CompiledModel(config_path=out_dir / "config.json")
Rehydrate ==
    /\ \E k \in 1..Len(fsFiles) : fsFiles[k] = "config.json"
    /\ freshModel = <<>>
    /\ freshModel' = CompiledModelInit(<<>>, <<>>, probesJson)
    /\ UNCHANGED <<probesJson, compiles, compilerVars, modelVars, watchVars, runVars,
                   nameVars, configVars, probeVars, waitVars, launchVars, handleVars>>

\* ------------------------------------------------------------------------
\* Specification SpecRecompile: valid networks compiled one after another
\* into the same out_dir, and models constructed from its config.json.
\* ------------------------------------------------------------------------
InitRecompile ==
    /\ IdleWait
    /\ IdleProbe
    /\ IdleModel
    /\ IdleDisk
    /\ IdleLaunch
    /\ IdleHandles
    /\ IdleNames
    /\ IdleConfig
    /\ IdleWatch
    /\ IdleRun
    /\ defaults = PlainDefaults(Some(8), Some(50), None)
    /\ layers = <<>>
    /\ vectors = <<>>
    /\ doc = Pending
    /\ call = [fn |-> "compile", include_supervisor |-> FALSE, out_dir |-> TRUE,
               data_input_file |-> TRUE, input_data |-> FALSE]
    /\ fsDir = FALSE
    /\ fsFiles = <<>>
    /\ outcome = NoOutcome

NextRecompile == Recompile \/ Rehydrate

SpecRecompile == InitRecompile /\ [][NextRecompile]_vars

\* the probed layers of the latest compile, as probes.json entries
RECURSIVE ProbedFrom(_, _)
ProbedFrom(lyrs, j) ==
    IF j > Len(lyrs) THEN <<>>
    ELSE (IF lyrs[j].probe = None THEN <<>>
          ELSE << [name |-> Strip(lyrs[j].probe[1]), layer_index |-> j - 1,
                   layer_size |-> lyrs[j].size] >>)
         \o ProbedFrom(lyrs, j + 1)

SizesOf(cm) == [n \in DOMAIN cm.probe_metadata |-> cm.probe_metadata[n].layer_size]

DeclaredNames == {ProbedFrom(layers, 1)[k].name : k \in 1..Len(ProbedFrom(layers, 1))}

\* C28: after any sequence of compiles into the same out_dir, the model
\* returned by the latest (successful) compile, and any model constructed
\* afterwards from the out_dir's config.json, exposes exactly the probes
\* declared on the layers of that latest compile.
C28_LatestCompileProbes ==
    (compiles > 0 /\ outcome.status = "ok") =>
        /\ compiledModel # <<>> => DOMAIN compiledModel.probe_to_layer = DeclaredNames
        /\ freshModel # <<>> => DOMAIN freshModel.probe_to_layer = DeclaredNames

RECURSIVE Concat(_)
Concat(batches) == IF batches = <<>> THEN <<>> ELSE Head(batches) \o Concat(Tail(batches))

\* C22: iter_spikes / iter_vin / iter_vns on an existing file with
\* chunk_size >= 1 yield non-empty batches, all but possibly the last of
\* exactly chunk_size values and the last of 1..chunk_size, whose
\* concatenation is the eager read of the file, on every call; with
\* chunk_size <= 0 they raise ValueError.
C22_ChunkedIteration ==
    Called("iter") =>
        LET batches == probeResult.value
            c == probeCall.chunk_size
            eager == _read_signal(layerProbe, outDir, probeCall.signal, probeCall.neuron_idx)
        IN  /\ c <= 0 => probeResult.status = "ValueError"
            /\ (c >= 1 /\ FileOf(probeCall.signal, probeCall.neuron_idx) \in DOMAIN outDir) =>
                    /\ probeResult.status = "ok"
                    /\ \A k \in 1..Len(batches) :
                            /\ Len(batches[k]) >= 1
                            /\ Len(batches[k]) <= c
                            /\ k < Len(batches) => Len(batches[k]) = c
                    /\ eager.status = "ok"
                    /\ Concat(batches) = eager.value

\* three values read in batches of two: a full batch and a shorter last one
C22_Witness ==
    /\ Called("iter")
    /\ probeCall.signal = "spikes"
    /\ probeCall.chunk_size = 2
    /\ probeResult = Ended(<< <<2, 1>>, <<0>> >>)

\* ------------------------------------------------------------------------
\* The start of NemoSimRunner.run (src/nemosdk/runner.py): the path checks,
\* the logs, the command line and the environment of the child
\* ------------------------------------------------------------------------

\* os.environ of the calling process, with or without NEMOSIM_BINARY
Environ(override) ==
    IF override = None THEN [HOME |-> "h", X |-> "0"]
    ELSE [HOME |-> "h", X |-> "0", NEMOSIM_BINARY |-> override[1]]

\* NemoSimRunner.__init__: explicit argument, else NEMOSIM_BINARY, else
\* working_dir / "NEMOSIM"
NemoSimRunnerInit(working_dir, binary_path, environ) ==
    [working_dir |-> working_dir,
     binary_path |-> IF binary_path # None THEN binary_path[1]
                     ELSE IF "NEMOSIM_BINARY" \in DOMAIN environ
                     THEN environ["NEMOSIM_BINARY"]
                     ELSE JoinPath(working_dir, Path(FALSE, <<"NEMOSIM">>))]

\* the location a path of the calling process refers to
LocationOf(p) == Resolve(p)

\* self.binary_path.exists() / .is_file() look here
CheckedLocation(r) == LocationOf(r.binary_path)

\* Path(self.binary_path).name
NameOf(p) == Path(FALSE, <<p.segs[Len(p.segs)]>>)

\* bin_arg, which the child resolves after chdir into working_dir
LaunchLocation(r) ==
    IF r.binary_path.abs THEN LocationOf(r.binary_path)
    ELSE LocationOf(JoinPath(r.working_dir, NameOf(r.binary_path)))

KindAt(t, loc) == IF loc \in DOMAIN t THEN t[loc] ELSE "absent"

\* lines 98-104: the working directory, then the binary
path_checks(r, t) ==
    IF KindAt(t, LocationOf(r.working_dir)) = "absent"
    THEN [status |-> "FileNotFoundError", what |-> "Invalid working directory"]
    ELSE IF KindAt(t, CheckedLocation(r)) = "absent"
    THEN [status |-> "FileNotFoundError", what |-> "Simulator binary not found"]
    ELSE IF KindAt(t, CheckedLocation(r)) \notin {"file", "exe"}
    THEN [status |-> "FileNotFoundError", what |-> "Simulator binary is not a file"]
    ELSE [status |-> "ok"]

\* env=dict(env) if env is not None else None: the environment of the child
child_env(env, environ) == IF env # None THEN env[1] ELSE environ

CheckPaths ==
    /\ launchPc = "check"
    /\ LET checked == path_checks(runner, tree)
       IN  IF checked.status = "ok"
           THEN /\ launchPc' = "logs"
                /\ UNCHANGED launchResult
           ELSE /\ launchPc' = "done"
                /\ launchResult' = checked
    /\ UNCHANGED <<runner, tree, logsMade, child, compilerVars, watchVars, runVars, nameVars,
                   configVars, probeVars, waitVars, modelVars, diskVars, handleVars>>

\* logs_dir.mkdir(parents=True, exist_ok=True); the two log files are opened
MakeLogs ==
    /\ launchPc = "logs"
    /\ logsMade' = TRUE
    /\ launchPc' = "start"
    /\ UNCHANGED <<runner, tree, child, launchResult, compilerVars, watchVars, runVars,
                   nameVars, configVars, probeVars, waitVars, modelVars, diskVars, handleVars>>

\* subprocess.run / subprocess.Popen with cwd=working_dir: the child
\* executes what lies at bin_arg, or the call raises
StartChild ==
    /\ launchPc = "start"
    /\ LET kind == KindAt(tree, LaunchLocation(runner))
       IN  IF kind = "exe"
           THEN /\ child' = [location |-> LaunchLocation(runner),
                             env |-> child_env(runner.env, runner.environ)]
                /\ launchResult' = [status |-> "ok"]
           ELSE /\ child' = child
                /\ launchResult' =
                        [status |-> IF kind = "absent" THEN "FileNotFoundError"
                                    ELSE "PermissionError",
                         what |-> "exec"]
    /\ launchPc' = "done"
    /\ UNCHANGED <<runner, tree, logsMade, compilerVars, watchVars, runVars, nameVars,
                   configVars, probeVars, waitVars, modelVars, diskVars, handleVars>>

WorkingDirs == {Path(TRUE, <<"w">>), Path(FALSE, <<"bin">>), Path(TRUE, <<"sim">>)}

BinaryArgs ==
    {None, Some(Path(TRUE, <<"opt", "NEMOSIM">>)), Some(Path(FALSE, <<"NEMOSIM">>)),
     Some(Path(FALSE, <<"tools", "NEMOSIM">>))}

EnvArgs == {None, Some(<<>>), Some([X |-> "1"]), Some([Y |-> "1"])}

Kinds == {"absent", "dir", "file", "exe"}

\* ------------------------------------------------------------------------
\* Specification SpecLaunch: one call of run on a runner built with any of
\* the binary path forms, over every kind of thing at the places involved.
\* ------------------------------------------------------------------------
InitLaunch ==
    /\ IdleWait
    /\ IdleHandles
    /\ IdleProbe
    /\ IdleModel
    /\ IdleDisk
    /\ IdleNames
    /\ IdleConfig
    /\ IdleWatch
    /\ IdleRun
    /\ IdleCompiler
    /\ \E wd \in WorkingDirs, b \in BinaryArgs, e \in EnvArgs,
          o \in {None, Some(Path(TRUE, <<"opt", "NEMOSIM">>))} :
         LET r == NemoSimRunnerInit(wd, b, Environ(o))
             places == {CheckedLocation(r), LaunchLocation(r)}
         IN  /\ runner = [working_dir |-> r.working_dir, binary_path |-> r.binary_path,
                          env |-> e, environ |-> Environ(o)]
             /\ \E wk \in {"absent", "dir"}, t \in [places -> Kinds] :
                    tree = [loc \in {l \in places \cup {LocationOf(wd)} :
                                        IF l = LocationOf(wd) THEN wk # "absent"
                                        ELSE t[l] # "absent"} |->
                                IF loc = LocationOf(wd) THEN wk ELSE t[loc]]
    /\ launchPc = "check"
    /\ logsMade = FALSE
    /\ child = <<>>
    /\ launchResult = [status |-> "none"]

NextLaunch == CheckPaths \/ MakeLogs \/ StartChild

SpecLaunch == InitLaunch /\ [][NextLaunch]_vars

\* the working directory is missing, or the binary run checks is missing,
\* not a regular file, or not executable
BadPaths ==
    \/ KindAt(tree, LocationOf(runner.working_dir)) = "absent"
    \/ KindAt(tree, CheckedLocation(runner)) # "exe"

\* C23: when the working directory does not exist, or the binary path does
\* not exist, is not a regular file or is not executable, run raises
\* before the logs directory or a log file is made and before a child is
\* started, and a missing working directory is reported first.
C23_ImmediateError ==
    (launchPc = "done" /\ BadPaths) =>
        /\ launchResult.status # "ok"
        /\ ~logsMade
        /\ child = <<>>
        /\ KindAt(tree, LocationOf(runner.working_dir)) = "absent" =>
                launchResult.what = "Invalid working directory"

\* C27: the child sees every variable of env with the given value and every
\* variable of the parent's environment that env does not name; without
\* env it sees the parent's environment unchanged.
C27_EnvOverrides ==
    child # <<>> =>
        IF runner.env = None THEN child.env = runner.environ
        ELSE /\ \A v \in DOMAIN runner.env[1] :
                    v \in DOMAIN child.env /\ child.env[v] = runner.env[1][v]
             /\ \A v \in DOMAIN runner.environ \ DOMAIN runner.env[1] :
                    v \in DOMAIN child.env /\ child.env[v] = runner.environ[v]

\* run is past its path checks
ChecksPassed ==
    \/ launchPc \in {"logs", "start"}
    \/ launchPc = "done" /\ (launchResult.status = "ok" \/ launchResult.what = "exec")

\* C29: for every binary_path, absolute or relative, the location whose
\* existence run checks before launching is the location of the file the
\* child executes, which is resolved from the working directory.
C29_CheckedIsLaunched ==
    ChecksPassed => CheckedLocation(runner) = LaunchLocation(runner)

\* ------------------------------------------------------------------------
\* File handles of the probe reads (src/nemosdk/compiler.py _read_signal,
\* _iter_signal; src/nemosdk/probe_utils.py watch_probe).  A generator runs
\* only while its consumer is inside next(); between two calls it is
\* suspended at a yield, where the consumer may also close it.
\* ------------------------------------------------------------------------

\* leaving "with path.open() as fh" without closing the handle
WithExitLeaks(h) == h

\* leaving "with path.open() as fh", by return, break, exception or
\* GeneratorExit: the handle is closed
WithExit(h) == h - 1

\* the caster accepts the stripped line
Parses(line) == IsInt(Strip(line))

\* the lines of the file are all blank or accepted by the caster
RECURSIVE AllParse(_, _)
AllParse(content, pos) ==
    IF ReadLine(content, pos) = <<>> THEN TRUE
    ELSE /\ (Strip(ReadLine(content, pos)) = <<>> \/ Parses(ReadLine(content, pos)))
         /\ AllParse(content, LineEnd(content, pos))

\* the first call of next(), or the call of the eager read: the checks
\* before the file is opened
HStart ==
    /\ hPc = "new"
    /\ hPc' = IF hFile # None THEN "opening"
              ELSE IF hRead.kind = "watch" /\ hRead.wait_for_file THEN "waiting"
              ELSE "raised"
    /\ UNCHANGED <<hRead, hFile, hPos, hCount, handles, compilerVars, watchVars, runVars,
                   nameVars, configVars, probeVars, waitVars, modelVars, diskVars, launchVars>>

\* the simulator creates the signal file while watch_probe waits for it
HFileAppears ==
    /\ hPc = "waiting"
    /\ hFile = None
    /\ \E content \in {<<"1", "\n">>, <<"x", "\n">>} : hFile' = Some(content)
    /\ UNCHANGED <<hRead, hPc, hPos, hCount, handles, compilerVars, watchVars, runVars,
                   nameVars, configVars, probeVars, waitVars, modelVars, diskVars, launchVars>>

\* while not path.exists(): the file is there
HWaitEnds ==
    /\ hPc = "waiting"
    /\ hFile # None
    /\ hPc' = "opening"
    /\ UNCHANGED <<hRead, hFile, hPos, hCount, handles, compilerVars, watchVars, runVars,
                   nameVars, configVars, probeVars, waitVars, modelVars, diskVars, launchVars>>

\* the deadline has passed and the file is not there: TimeoutError
HWaitTimesOut ==
    /\ hPc = "waiting"
    /\ hFile = None
    /\ hRead.timed
    /\ hPc' = "raised"
    /\ UNCHANGED <<hRead, hFile, hPos, hCount, handles, compilerVars, watchVars, runVars,
                   nameVars, configVars, probeVars, waitVars, modelVars, diskVars, launchVars>>

\* with path.open() as fh
HOpen ==
    /\ hPc = "opening"
    /\ handles' = handles + 1
    /\ hPos' = 0
    /\ hPc' = "reading"
    /\ UNCHANGED <<hRead, hFile, hCount, compilerVars, watchVars, runVars, nameVars,
                   configVars, probeVars, waitVars, modelVars, diskVars, launchVars>>

\* _read_signal: the list comprehension over the file, inside the with
HReadAll ==
    /\ hPc = "reading"
    /\ hRead.kind = "eager"
    /\ hPc' = IF AllParse(hFile[1], 0) THEN "returned" ELSE "raised"
    /\ hPos' = Len(hFile[1])
    /\ handles' = WithExit(handles)
    /\ UNCHANGED <<hRead, hFile, hCount, compilerVars, watchVars, runVars, nameVars,
                   configVars, probeVars, waitVars, modelVars, diskVars, launchVars>>

\* one turn of the loop of watch_probe, up to a yield, a sleep or the end
HWatchLine ==
    /\ hPc = "reading"
    /\ hRead.kind = "watch"
    /\ LET line == ReadLine(hFile[1], hPos)
       IN  IF line = <<>>
           THEN IF ~hRead.follow \/ CapReached(hRead, hCount)
                THEN hPc' = "returned" /\ handles' = WithExit(handles) /\ hPos' = hPos
                ELSE hPc' = "sleep" /\ handles' = handles /\ hPos' = hPos
           ELSE IF Strip(line) = <<>>
           THEN hPc' = "reading" /\ handles' = handles /\ hPos' = LineEnd(hFile[1], hPos)
           ELSE IF ~Parses(line)
           THEN hPc' = "raised" /\ handles' = WithExit(handles)
                /\ hPos' = LineEnd(hFile[1], hPos)
           ELSE hPc' = "suspended" /\ handles' = handles /\ hPos' = LineEnd(hFile[1], hPos)
    /\ UNCHANGED <<hRead, hFile, hCount, compilerVars, watchVars, runVars, nameVars,
                   configVars, probeVars, waitVars, modelVars, diskVars, launchVars>>

\* one turn of the loop of _iter_signal; the last, shorter batch is yielded
\* after the with block
HIterLine ==
    /\ hPc = "reading"
    /\ hRead.kind = "iter"
    /\ LET line == ReadLine(hFile[1], hPos)
       IN  IF line = <<>>
           THEN /\ hPc' = IF hCount > 0 THEN "suspended_after" ELSE "returned"
                /\ handles' = WithExit(handles)
                /\ UNCHANGED <<hPos, hCount>>
           ELSE IF Strip(line) = <<>>
           THEN /\ hPos' = LineEnd(hFile[1], hPos)
                /\ UNCHANGED <<hPc, hCount, handles>>
           ELSE IF ~Parses(line)
           THEN /\ hPc' = "raised"
                /\ handles' = WithExit(handles)
                /\ hPos' = LineEnd(hFile[1], hPos)
                /\ UNCHANGED hCount
           ELSE /\ hPos' = LineEnd(hFile[1], hPos)
                /\ hCount' = hCount + 1
                /\ hPc' = IF hCount + 1 >= hRead.chunk_size THEN "suspended" ELSE "reading"
                /\ UNCHANGED handles
    /\ UNCHANGED <<hRead, hFile, compilerVars, watchVars, runVars, nameVars,
                   configVars, probeVars, waitVars, modelVars, diskVars, launchVars>>

\* the consumer calls next() again: the generator goes on after its yield
HResume ==
    /\ hPc \in {"suspended", "suspended_after"}
    /\ IF hPc = "suspended_after"
       THEN hPc' = "returned" /\ hCount' = 0 /\ handles' = handles
       ELSE IF hRead.kind = "iter"
       THEN hPc' = "reading" /\ hCount' = 0 /\ handles' = handles
       ELSE /\ hCount' = hCount + 1
            /\ IF CapReached(hRead, hCount + 1)
               THEN hPc' = "returned" /\ handles' = WithExit(handles)
               ELSE hPc' = "reading" /\ handles' = handles
    /\ UNCHANGED <<hRead, hFile, hPos, compilerVars, watchVars, runVars, nameVars,
                   configVars, probeVars, waitVars, modelVars, diskVars, launchVars>>

\* time.sleep(poll_interval) returns
HPoll ==
    /\ hPc = "sleep"
    /\ hPc' = "reading"
    /\ UNCHANGED <<hRead, hFile, hPos, hCount, handles, compilerVars, watchVars, runVars,
                   nameVars, configVars, probeVars, waitVars, modelVars, diskVars, launchVars>>

\* the consumer closes the generator it has not exhausted: GeneratorExit
\* is raised at the yield where it is suspended
HClose ==
    /\ hRead.kind \in {"iter", "watch"}
    /\ hPc \in {"new", "suspended", "suspended_after"}
    /\ handles' = IF hPc = "suspended" THEN WithExit(handles) ELSE handles
    /\ hPc' = "closed"
    /\ UNCHANGED <<hRead, hFile, hPos, hCount, compilerVars, watchVars, runVars, nameVars,
                   configVars, probeVars, waitVars, modelVars, diskVars, launchVars>>

HandleContents ==
    {<<>>, <<"1", "\n">>, <<"1", "\n", "\n", "2">>, <<"x", "\n">>, <<"1", "\n", "x">>}

HandleReads ==
    {[kind |-> "eager", follow |-> FALSE, max_events |-> None, wait_for_file |-> FALSE,
      timed |-> FALSE, chunk_size |-> 1]}
    \cup {[kind |-> "iter", follow |-> FALSE, max_events |-> None, wait_for_file |-> FALSE,
           timed |-> FALSE, chunk_size |-> c] : c \in 1..2}
    \cup {[kind |-> "watch", follow |-> f, max_events |-> m, wait_for_file |-> w,
           timed |-> t, chunk_size |-> 1] :
            f \in BOOLEAN, m \in {None, Some(1)}, w \in BOOLEAN, t \in BOOLEAN}

\* ------------------------------------------------------------------------
\* Specification SpecHandles: one eager read, chunked iterator or
\* watch_probe generator and its consumer.
\* ------------------------------------------------------------------------
InitHandles ==
    /\ IdleWait
    /\ IdleProbe
    /\ IdleModel
    /\ IdleDisk
    /\ IdleLaunch
    /\ IdleNames
    /\ IdleConfig
    /\ IdleWatch
    /\ IdleRun
    /\ IdleCompiler
    /\ hRead \in HandleReads
    /\ hFile \in {None} \cup {Some(content) : content \in HandleContents}
    /\ hPc = "new"
    /\ hPos = 0
    /\ hCount = 0
    /\ handles = 0

NextHandles ==
    \/ HStart
    \/ HFileAppears
    \/ HWaitEnds
    \/ HWaitTimesOut
    \/ HOpen
    \/ HReadAll
    \/ HWatchLine
    \/ HIterLine
    \/ HResume
    \/ HPoll
    \/ HClose

SpecHandles == InitHandles /\ [][NextHandles]_vars

\* C24: a probe read holds at most one open file handle; none before the
\* file is opened, in particular while watch_probe waits for the file; and
\* none once the read has returned or the iterator is exhausted (end of
\* file or max_events reached), has raised on a line that does not parse,
\* or was closed by its consumer before exhaustion.
C24_HandleScoped ==
    /\ handles \in {0, 1}
    /\ hPc \in {"new", "waiting", "opening"} => handles = 0
    /\ hPc \in {"returned", "raised", "closed"} => handles = 0

\* a watch_probe generator closed by its consumer after its first value
C24_Witness ==
    /\ hRead # <<>>
    /\ hRead.kind = "watch"
    /\ hPc = "closed"
    /\ hPos > 0
    /\ handles = 0

\* ------------------------------------------------------------------------
\* Specification SpecDefaults: compile_to_xml on a one-layer network under
\* global defaults whose every field is unset, zero or non-zero.
\* ------------------------------------------------------------------------
GlobalFields ==
    {"VTh", "RLeak", "refractory", "VDD", "Cn", "Cu", "fclk", "DSClockMHz", "DSBitWidth"}

DefaultsUnderTest ==
    [VTh : {None, Some(0), Some(1)}, RLeak : {None, Some(0)}, refractory : {None, Some(0)},
     VDD : {None, Some(0), Some(1)}, Cn : {None, Some(0)}, Cu : {None, Some(0)},
     fclk : {None, Some(0)}, DSBitWidth : {None, Some(8), Some(5)},
     DSClockMHz : {None, Some(50), Some(0)},
     DSMode : {None, Some(""), Some("ThresholdMode"), Some("FrequencyMode"),
               Some("NotAMode")}]

InitDefaults ==
    /\ IdleWait
    /\ IdleProbe
    /\ IdleModel
    /\ IdleDisk
    /\ IdleLaunch
    /\ IdleHandles
    /\ IdleNames
    /\ IdleConfig
    /\ IdleWatch
    /\ IdleRun
    /\ defaults \in DefaultsUnderTest
    /\ layers = <<Layer(1, UnitSynapses(1), <<>>, <<>>, None)>>
    /\ vectors = <<>>
    /\ doc = Pending
    /\ IdleCall

SpecDefaults == InitDefaults /\ [][NextEmit]_vars

\* the texts of the elements of the defaults section with this tag
TextsOf(tag) == [k \in {j \in 1..Len(doc.biu) : doc.biu[j][1] = tag} |-> doc.biu[k][2]]

ElementsOf(tag) == Cardinality(DOMAIN TextsOf(tag))

\* C25: the defaults section of a primary document holds exactly one DSMode
\* element, ThresholdMode when the mode is unset or the empty string and
\* the given mode otherwise; and for each other global field, one element
\* carrying the field's value when the field is set (0 included) and no
\* element when it is unset.
C25_DefaultsSection ==
    doc.status = "ok" =>
        /\ ElementsOf("DSMode") = 1
        /\ \A k \in DOMAIN TextsOf("DSMode") :
                TextsOf("DSMode")[k] =
                    IF defaults.DSMode \in {None, Some("")} THEN Str("ThresholdMode")
                    ELSE Str(defaults.DSMode[1])
        /\ \A f \in GlobalFields :
                IF defaults[f] = None THEN ElementsOf(f) = 0
                ELSE /\ ElementsOf(f) = 1
                     /\ \A k \in DOMAIN TextsOf(f) : TextsOf(f)[k] = Str(defaults[f][1])
        /\ \A k \in 1..Len(doc.biu) : doc.biu[k][1] \in GlobalFields \cup {"DSMode"}

\* a document compiled from defaults with a field set to 0, a field unset
\* and the empty mode
C25_Witness ==
    /\ doc.status = "ok"
    /\ defaults.VDD = Some(0)
    /\ defaults.VTh = Some(0)
    /\ defaults.Cn = None
    /\ defaults.DSMode = Some("")

\* ------------------------------------------------------------------------
\* Specification SpecWeights: compile_to_xml on a one-layer network whose
\* weight matrix holds at most MaxWeights weights, each an int or a float in
\* one of the forms str() gives a float.
\* ------------------------------------------------------------------------
MaxWeights == 3

FloatTexts ==
    {<<"7", ".", "0">>, <<"5", ".", "5">>, <<"1", "0", ".", "0">>, <<"0", ".", "0">>,
     <<"1", "e", "+", "2", "0">>, <<"1", "e", "-", "1", "0">>}

IntTexts == {<<"7">>, <<"1", "0">>}

WeightInputs ==
    {[float |-> TRUE, text |-> t] : t \in FloatTexts}
    \cup {[float |-> FALSE, text |-> t] : t \in IntTexts}

Shapes == {rc \in (1..MaxWeights) \X (1..MaxWeights) : rc[1] * rc[2] <= MaxWeights}

WeightMatrices ==
    UNION {{TypedSynapses(rc[1], rc[2], w) :
                w \in [1..rc[1] -> [1..rc[2] -> WeightInputs]]} : rc \in Shapes}

InitWeights ==
    /\ IdleWait
    /\ IdleProbe
    /\ IdleModel
    /\ IdleDisk
    /\ IdleLaunch
    /\ IdleHandles
    /\ IdleNames
    /\ IdleConfig
    /\ IdleWatch
    /\ IdleRun
    /\ defaults = BIUNetworkDefaults(None, None, None, None, None, None)
    /\ \E s \in WeightMatrices : layers = <<Layer(s.rows, s, <<>>, <<>>, None)>>
    /\ vectors = <<>>
    /\ doc = Pending
    /\ IdleCall

SpecWeights == InitWeights /\ [][NextEmit]_vars

\* the tokens of a row text, split at each space
RECURSIVE SplitAtSpaces(_)
SplitAtSpaces(text) ==
    LET sp == {k \in 1..Len(text) : text[k] = " "}
    IN  IF sp = {} THEN <<text>>
        ELSE LET k == CHOOSE x \in sp : \A y \in sp : x <= y
             IN  <<SubSeq(text, 1, k - 1)>> \o SplitAtSpaces(SubSeq(text, k + 1, Len(text)))

DecimalDigits == <<"0", "1", "2", "3", "4", "5", "6", "7", "8", "9">>

RECURSIVE NatOf(_)
NatOf(digits) ==
    IF digits = <<>> THEN 0
    ELSE 10 * NatOf(SubSeq(digits, 1, Len(digits) - 1))
         + (CHOOSE d \in 1..10 : DecimalDigits[d] = digits[Len(digits)]) - 1

\* n * 10^e with n not a multiple of 10, or <<0, 0>>
RECURSIVE Normal(_, _)
Normal(n, e) ==
    IF n = 0 THEN <<0, 0>>
    ELSE IF n % 10 = 0 THEN Normal(n \div 10, e + 1)
    ELSE <<n, e>>

\* the number a decimal token denotes: digits, an optional fractional part
\* and an optional signed exponent
NumberOf(text) ==
    LET es == {k \in 1..Len(text) : text[k] = "e"}
        cut == IF es = {} THEN Len(text) + 1 ELSE CHOOSE k \in es : TRUE
        mant == SubSeq(text, 1, cut - 1)
        expo == IF es = {} THEN 0
                ELSE IF text[cut + 1] = "-" THEN 0 - NatOf(SubSeq(text, cut + 2, Len(text)))
                ELSE NatOf(SubSeq(text, cut + 2, Len(text)))
        ds == {k \in 1..Len(mant) : mant[k] = "."}
        dot == IF ds = {} THEN Len(mant) + 1 ELSE CHOOSE k \in ds : TRUE
        frac == SubSeq(mant, dot + 1, Len(mant))
    IN  Normal(NatOf(SubSeq(mant, 1, dot - 1) \o frac), expo - Len(frac))

\* the row elements of the synapse block of the first layer
RowElements == doc.arch[1].children[1].children

RowTexts == [k \in 1..Len(RowElements) |-> RowElements[k][2]]

\* C26: the synapse block holds one row element per matrix row, in order,
\* its text the row's tokens separated by single spaces; the token of an
\* integer weight is the weight's text, the token of a float is its text
\* less the trailing zeros of its fractional part and a then-trailing
\* decimal point, and every token denotes the number of its weight.
C26_WeightsPreserved ==
    doc.status = "ok" =>
        LET s == layers[1].synapses
        IN  /\ Len(RowTexts) = s.rows
            /\ \A i \in 1..s.rows :
                LET tokens == SplitAtSpaces(RowTexts[i])
                IN  /\ RowElements[i][1] = "row"
                    /\ Len(tokens) = s.cols
                    /\ \A j \in 1..s.cols :
                        /\ tokens[j] = weight_token_mantissa_only(s.weights[i][j])
                        /\ NumberOf(tokens[j]) = NumberOf(s.weights[i][j].text)

\* ------------------------------------------------------------------------
\* Claims on SpecRun: a callback that raises
\* ------------------------------------------------------------------------

\* C30: when the callback of a stream has raised, run does not return a
\* RunResult, nor raise the RuntimeError of check, while the log of that
\* stream lacks lines the child wrote to it.
C30_NoSilentTruncation ==
    \A s \in Streams :
        (reader[s].pc = "failed" /\ result \in {"RunResult", "RuntimeError"})
            => log[s] = emitted[s]

====
